---- MODULE Spec2Model ----
(***************************************************************************)
(* A model of the recipe_grid compiler pipeline: the ScaledValueString     *)
(* type, the recipe data model (recipe_grid/recipe.py) and the compiler    *)
(* (recipe_grid/compiler.py).                                              *)
(*                                                                         *)
(* Conventions.  Python strings are sequences of one-character strings.    *)
(* Optional[T] is a sequence of length at most one (<<>> is None).         *)
(* Numbers (int, Fraction, exactly representable float) are normalised     *)
(* rationals [num, den].  Indices stored in fields (output_index, recipe   *)
(* indices) are 0-based as in the source; sequences are 1-based.  A raised *)
(* exception is the value Raise(name), which every constructor propagates. *)
(***************************************************************************)
EXTENDS Integers, Sequences, FiniteSets, TLC

\* ------------------------------------------------------------------------
\* Numbers
\* ------------------------------------------------------------------------

Abs(n) == IF n < 0 THEN 0 - n ELSE n

RECURSIVE GCD(_, _)
GCD(a, b) == IF b = 0 THEN a ELSE GCD(b, a % b)

\* The number n/d (d > 0) in lowest terms; Python's int, Fraction and float
\* compare equal exactly when these normal forms are equal.
Frac(n, d) ==
    LET g == GCD(Abs(n), d)
    IN  [num |-> n \div g, den |-> d \div g]

Whole(n) == Frac(n, 1)

NumMul(a, b) == Frac(a.num * b.num, a.den * b.den)

NumDiv(a, b) == Frac(a.num * b.den, a.den * b.num)

\* math.isclose(a, b) with the default tolerances (rel_tol = 1e-09,
\* abs_tol = 0).  Every value of the model is exactly representable and two
\* different values of the model differ by far more than one part in 10^9, so
\* the comparison is decided by exact equality.
isclose(a, b) == a.num * b.den = b.num * a.den

\* ------------------------------------------------------------------------
\* Python str operations (on sequences of characters)
\* ------------------------------------------------------------------------

UpperChars == {"A", "B", "C", "G", "K", "X"}

Whitespace == {" "}

char_lower(c) ==
    CASE c = "A" -> "a"
      [] c = "B" -> "b"
      [] c = "C" -> "c"
      [] c = "F" -> "f"
      [] c = "G" -> "g"
      [] c = "K" -> "k"
      [] c = "O" -> "o"
      [] c = "X" -> "x"
      [] OTHER -> c

char_upper(c) ==
    CASE c = "a" -> "A"
      [] c = "b" -> "B"
      [] c = "c" -> "C"
      [] c = "f" -> "F"
      [] c = "g" -> "G"
      [] c = "k" -> "K"
      [] c = "o" -> "O"
      [] c = "x" -> "X"
      [] OTHER -> c

str_lower(s) == [i \in 1..Len(s) |-> char_lower(s[i])]

str_upper(s) == [i \in 1..Len(s) |-> char_upper(s[i])]

RECURSIVE str_lstrip(_)
str_lstrip(s) ==
    IF s # <<>> /\ Head(s) \in Whitespace THEN str_lstrip(Tail(s)) ELSE s

RECURSIVE str_rstrip(_)
str_rstrip(s) ==
    IF s # <<>> /\ s[Len(s)] \in Whitespace
    THEN str_rstrip(SubSeq(s, 1, Len(s) - 1))
    ELSE s

\* ------------------------------------------------------------------------
\* ScaledValueString (recipe_grid/scaled_value_string.py)
\* ------------------------------------------------------------------------

Txt(s) == [t |-> "str", s |-> s]

Num(v) == [t |-> "num", v |-> v]

IsStr(part) == part.t = "str"

\* The loop of __init__ that combines adjacent strings.
RECURSIVE normalised_string(_, _)
normalised_string(parts, acc) ==
    IF parts = <<>> THEN acc
    ELSE LET part == Head(parts)
         IN  IF IsStr(part) /\ acc # <<>> /\ IsStr(acc[Len(acc)])
             THEN normalised_string(
                      Tail(parts),
                      [acc EXCEPT ![Len(acc)] = Txt(acc[Len(acc)].s \o part.s)])
             ELSE normalised_string(Tail(parts), Append(acc, part))

\* __init__ that keeps the empty strings.
ScaledValueString_keeping_empty_strings(parts) == normalised_string(parts, <<>>)

\* ScaledValueString(string): the tuple self._string.
ScaledValueString(parts) ==
    SelectSeq(normalised_string(parts, <<>>), LAMBDA part : part # Txt(<<>>))

svs_scale(string, multiplier) ==
    ScaledValueString(
        [i \in 1..Len(string) |->
            IF IsStr(string[i]) THEN string[i]
            ELSE Num(NumMul(string[i].v, multiplier))])

svs_lower(string) ==
    ScaledValueString(
        [i \in 1..Len(string) |->
            IF IsStr(string[i]) THEN Txt(str_lower(string[i].s)) ELSE string[i]])

svs_upper(string) ==
    ScaledValueString(
        [i \in 1..Len(string) |->
            IF IsStr(string[i]) THEN Txt(str_upper(string[i].s)) ELSE string[i]])

\* lstrip applied to every text part rather than to the first part only.
svs_lstrip_every_part(string) ==
    ScaledValueString(
        [i \in 1..Len(string) |->
            IF IsStr(string[i])
            THEN Txt(str_lstrip(string[i].s)) ELSE string[i]])

svs_lstrip(string) ==
    ScaledValueString(
        [i \in 1..Len(string) |->
            IF IsStr(string[i]) /\ i = 1
            THEN Txt(str_lstrip(string[i].s)) ELSE string[i]])

svs_rstrip(string) ==
    ScaledValueString(
        [i \in 1..Len(string) |->
            IF IsStr(string[i]) /\ i = Len(string)
            THEN Txt(str_rstrip(string[i].s)) ELSE string[i]])

svs_strip(string) == svs_rstrip(svs_lstrip(string))

svs_add(a, b) == ScaledValueString(a \o b)

\* ------------------------------------------------------------------------
\* Unit conversion (recipe_grid/units.py); the units of the model are the
\* mass units g and kg, the volume unit l and the unregistered unit "foo".
\* ------------------------------------------------------------------------

unit_g == <<"g">>
unit_kg == <<"k", "g">>
unit_l == <<"l">>
unit_foo == <<"f", "o", "o">>

\* _name_to_unit_set: the RelatedUnitSet a registered name belongs to
\* (<<>> models the KeyError of an unregistered name).
name_to_unit_set(unit) ==
    CASE unit \in {unit_g, unit_kg} -> <<"mass">>
      [] unit = unit_l -> <<"volume">>
      [] OTHER -> <<>>

\* The number of base units (g, l) in one of the given unit: the product of
\* the Definition quantities on the path to the root of its unit tree.
in_base_units(unit) == IF unit = unit_kg THEN Whole(1000) ELSE Whole(1)

\* UnitSystem.convert_between: <<factor>>, or <<>> for a KeyError.
convert_between(from_unit, to_unit) ==
    IF /\ name_to_unit_set(from_unit) # <<>>
       /\ name_to_unit_set(to_unit) = name_to_unit_set(from_unit)
    THEN <<NumDiv(in_base_units(from_unit), in_base_units(to_unit))>>
    ELSE <<>>

\* ------------------------------------------------------------------------
\* Quantities and proportions (recipe_grid/recipe.py)
\* ------------------------------------------------------------------------

Quantity(value, unit, value_unit_spacing, preposition) ==
    [type |-> "Quantity", value |-> value, unit |-> unit,
     value_unit_spacing |-> value_unit_spacing, preposition |-> preposition]

\* Proportion with the defaults filled in by __post_init__.
Proportion(value, percentage, remainder_wording, preposition) ==
    [type |-> "Proportion",
     value |-> value,
     percentage |->
        IF value # <<>> /\ percentage = <<>> THEN <<FALSE>> ELSE percentage,
     remainder_wording |->
        IF value = <<>> /\ remainder_wording = <<>>
        THEN <<"remaining">> ELSE remainder_wording,
     preposition |-> preposition]

\* has_equal_value_to without the comparison of the spellings when no
\* conversion is available.
has_equal_value_to_when_convertible(self, other) ==
    IF self.unit = <<>> /\ other.unit = <<>>
    THEN isclose(self.value, other.value)
    ELSE IF self.unit = <<>> \/ other.unit = <<>>
    THEN FALSE
    ELSE LET conv == convert_between(str_lower(other.unit[1]),
                                     str_lower(self.unit[1]))
         IN  IF conv # <<>>
             THEN isclose(self.value, NumMul(other.value, conv[1]))
             ELSE FALSE

has_equal_value_to(self, other) ==
    IF self.unit = <<>> /\ other.unit = <<>>
    THEN isclose(self.value, other.value)
    ELSE IF self.unit = <<>> \/ other.unit = <<>>
    THEN FALSE
    ELSE LET conv == convert_between(str_lower(other.unit[1]),
                                     str_lower(self.unit[1]))
         IN  IF conv # <<>>
             THEN isclose(self.value, NumMul(other.value, conv[1]))
             ELSE IF str_lower(self.unit[1]) = str_lower(other.unit[1])
             THEN isclose(self.value, other.value)
             ELSE FALSE

quantity_scale(self, factor) == [self EXCEPT !.value = NumMul(self.value, factor)]

amount_scale(self, factor) ==
    IF self.type = "Quantity" THEN quantity_scale(self, factor) ELSE self

\* ------------------------------------------------------------------------
\* Recipe tree nodes (recipe_grid/recipe.py)
\* ------------------------------------------------------------------------

Raise(error) == [kind |-> "Error", error |-> error]

IsError(x) == x.kind = "Error"

\* The first raised exception among the already evaluated arguments.
FirstError(nodes) ==
    nodes[CHOOSE i \in 1..Len(nodes) :
            /\ IsError(nodes[i])
            /\ \A j \in 1..(i - 1) : ~IsError(nodes[j])]

\* _assert_can_be_child_node does not raise.
can_be_child_node(node) ==
    ~(node.kind = "SubRecipe" /\ Len(node.output_names) > 1)

Ingredient(description, quantity) ==
    [kind |-> "Ingredient", description |-> description, quantity |-> quantity]

\* Step without __post_init__: the inputs are not checked.
Step_unchecked(description, inputs) ==
    IF \E i \in 1..Len(inputs) : IsError(inputs[i]) THEN FirstError(inputs)
    ELSE [kind |-> "Step", description |-> description, inputs |-> inputs]

Step(description, inputs) ==
    IF \E i \in 1..Len(inputs) : IsError(inputs[i]) THEN FirstError(inputs)
    ELSE IF \E i \in 1..Len(inputs) : ~can_be_child_node(inputs[i])
    THEN Raise("MultiOutputSubRecipeUsedAsNonRootNodeError")
    ELSE [kind |-> "Step", description |-> description, inputs |-> inputs]

Reference(sub_recipe, output_index, amount) ==
    IF IsError(sub_recipe) THEN sub_recipe
    ELSE IF sub_recipe.kind # "SubRecipe" THEN Raise("AttributeError")
    ELSE IF output_index >= Len(sub_recipe.output_names)
    THEN Raise("OutputIndexError")
    ELSE [kind |-> "Reference", sub_recipe |-> sub_recipe,
          output_index |-> output_index, amount |-> amount]

SubRecipe(sub_tree, output_names, show_output_names) ==
    IF IsError(sub_tree) THEN sub_tree
    ELSE IF ~can_be_child_node(sub_tree)
    THEN Raise("MultiOutputSubRecipeUsedAsNonRootNodeError")
    ELSE IF Len(output_names) = 0 THEN Raise("ZeroOutputSubRecipeError")
    ELSE [kind |-> "SubRecipe", sub_tree |-> sub_tree,
          output_names |-> output_names,
          show_output_names |-> show_output_names]

\* iter_children: only Step and Reference override the empty default.
iter_children(node) ==
    CASE node.kind = "Step" -> node.inputs
      [] node.kind = "Reference" -> <<node.sub_recipe>>
      [] OTHER -> <<>>

\* RecipeTreeNode.substitute, the base class method: no recursion into children.
substitute_root_only(self, old, new) ==
    IF self = old THEN new ELSE self

\* substitute that stops at a Reference: its target is left as it is.
RECURSIVE substitute_not_into_references(_, _, _)
substitute_not_into_references(self, old, new) ==
    IF self = old THEN new
    ELSE CASE self.kind = "Step" ->
                Step(self.description,
                     [i \in 1..Len(self.inputs) |->
                        substitute_not_into_references(self.inputs[i], old, new)])
           [] self.kind = "SubRecipe" ->
                SubRecipe(substitute_not_into_references(self.sub_tree, old, new),
                          self.output_names, self.show_output_names)
           [] OTHER -> self

RECURSIVE substitute(_, _, _)
substitute(self, old, new) ==
    IF self = old THEN new
    ELSE CASE self.kind = "Step" ->
                Step(self.description,
                     [i \in 1..Len(self.inputs) |->
                        substitute(self.inputs[i], old, new)])
           [] self.kind = "Reference" ->
                Reference(substitute(self.sub_recipe, old, new),
                          self.output_index, self.amount)
           [] self.kind = "SubRecipe" ->
                SubRecipe(substitute(self.sub_tree, old, new),
                          self.output_names, self.show_output_names)
           [] OTHER -> self

RECURSIVE scale(_, _)
scale(self, factor) ==
    CASE self.kind = "Ingredient" ->
            Ingredient(svs_scale(self.description, factor),
                       [i \in 1..Len(self.quantity) |->
                            quantity_scale(self.quantity[i], factor)])
      [] self.kind = "Step" ->
            Step(svs_scale(self.description, factor),
                 [i \in 1..Len(self.inputs) |-> scale(self.inputs[i], factor)])
      [] self.kind = "Reference" ->
            Reference(scale(self.sub_recipe, factor), self.output_index,
                      amount_scale(self.amount, factor))
      [] self.kind = "SubRecipe" ->
            SubRecipe(scale(self.sub_tree, factor),
                      [i \in 1..Len(self.output_names) |->
                            svs_scale(self.output_names[i], factor)],
                      self.show_output_names)

\* ------------------------------------------------------------------------
\* Recipe (recipe_grid/recipe.py)
\* ------------------------------------------------------------------------

Range(seq) == {seq[i] : i \in 1..Len(seq)}

\* The SubRecipe roots collected by walking the follows chain.
RECURSIVE chain_sub_recipe_roots(_)
chain_sub_recipe_roots(follows) ==
    IF follows = <<>> THEN {}
    ELSE {recipe_tree \in Range(follows[1].recipe_trees) :
                recipe_tree.kind = "SubRecipe"}
         \cup chain_sub_recipe_roots(follows[1].follows)

\* The Reference nodes popped from to_visit when the walk starts at node.
RECURSIVE visited_references(_)
visited_references(node) ==
    (IF node.kind = "Reference" THEN {node} ELSE {})
    \cup UNION {visited_references(child) : child \in Range(iter_children(node))}

\* The loop over self.recipe_trees: TRUE iff it completes without raising.
RECURSIVE references_are_consistent(_, _)
references_are_consistent(recipe_trees, previous_sub_recipe_roots) ==
    IF recipe_trees = <<>> THEN TRUE
    ELSE LET tree_root == Head(recipe_trees)
         IN  /\ \A node \in visited_references(tree_root) :
                    node.sub_recipe \in previous_sub_recipe_roots
             /\ references_are_consistent(
                    Tail(recipe_trees),
                    IF tree_root.kind = "SubRecipe"
                    THEN previous_sub_recipe_roots \cup {tree_root}
                    ELSE previous_sub_recipe_roots)

Recipe(recipe_trees, follows) ==
    IF \E i \in 1..Len(recipe_trees) : IsError(recipe_trees[i])
    THEN FirstError(recipe_trees)
    ELSE IF references_are_consistent(recipe_trees,
                                      chain_sub_recipe_roots(follows))
    THEN [kind |-> "Recipe", recipe_trees |-> recipe_trees, follows |-> follows]
    ELSE Raise("ReferenceToInvalidSubRecipeError")

\* Recipe.scale that leaves the Recipes of the follows chain as they are.
recipe_scale_not_following(self, factor) ==
    Recipe([i \in 1..Len(self.recipe_trees) |->
                scale(self.recipe_trees[i], factor)],
           self.follows)

\* Recipe.scale: dataclasses.replace runs __post_init__ on the scaled trees.
RECURSIVE recipe_scale(_, _)
recipe_scale(self, factor) ==
    LET follows == IF self.follows = <<>> THEN <<>>
                   ELSE <<recipe_scale(self.follows[1], factor)>>
    IN  IF follows # <<>> /\ IsError(follows[1]) THEN follows[1]
        ELSE Recipe([i \in 1..Len(self.recipe_trees) |->
                        scale(self.recipe_trees[i], factor)],
                    follows)

\* ------------------------------------------------------------------------
\* Tables (recipe_grid/renderer/table.py).  A dict keyed by (row, column) is
\* the sequence of its items in insertion order; rows and columns are
\* 0-based as in the source.
\* ------------------------------------------------------------------------

Cell(value, rows, columns, border_left, border_right, border_top, border_bottom) ==
    [type |-> "Cell", value |-> value, rows |-> rows, columns |-> columns,
     border_left |-> border_left, border_right |-> border_right,
     border_top |-> border_top, border_bottom |-> border_bottom]

\* Cell(value, rows=rows, columns=columns): every border is BorderType.normal.
plain_cell(value, rows, columns) ==
    Cell(value, rows, columns, "normal", "normal", "normal", "normal")

ExtendedCell(cell, drow, dcolumn) ==
    [type |-> "ExtendedCell", cell |-> cell, drow |-> drow, dcolumn |-> dcolumn]

\* A position of the list of lists that from_dict has not filled.
None == [type |-> "None"]

Max(S) == CHOOSE x \in S : \A y \in S : x >= y

\* The coordinates range(row, row + rows) x range(column, column + columns)
\* in the order of the nested loops, without (row, column) itself.
extended_coordinates(row, column, rows, columns) ==
    IF rows <= 0 \/ columns <= 0 THEN <<>>
    ELSE [k \in 1..(rows * columns - 1) |->
            <<row + (k \div columns), column + (k % columns)>>]

\* The inner loops of __post_init__ over the cells a spanning Cell extends
\* over: the exception raised ("" if none) and what is left of to_check.
RECURSIVE check_extended_cells(_, _, _, _, _, _)
check_extended_cells(cells, row, column, cell, coordinates, to_check) ==
    IF coordinates = <<>> THEN [raised |-> "", to_check |-> to_check]
    ELSE LET erow == coordinates[1][1]
             ecolumn == coordinates[1][2]
             failed(name) == [raised |-> name, to_check |-> to_check]
         IN  IF erow >= Len(cells) THEN failed("MissingCellError")
             ELSE IF ecolumn >= Len(cells[erow + 1])
             THEN failed("MissingCellError")
             ELSE LET extended_cell == cells[erow + 1][ecolumn + 1]
                  IN  IF extended_cell.type # "ExtendedCell"
                      THEN failed("ExtendedCellExpectedError")
                      ELSE IF extended_cell.cell # cell
                      THEN failed("ExtendedCellReferenceError")
                      ELSE IF \/ extended_cell.drow # erow - row
                              \/ extended_cell.dcolumn # ecolumn - column
                      THEN failed("ExtendedCellCoordinateError")
                      ELSE IF \A k \in 1..Len(to_check) :
                                    to_check[k] # coordinates[1]
                      THEN failed("ValueError")
                      ELSE check_extended_cells(
                               cells, row, column, cell, Tail(coordinates),
                               SelectSeq(to_check,
                                         LAMBDA c : c # coordinates[1]))

\* The while loop of __post_init__: "ok" or the name of the exception raised.
RECURSIVE check_cells(_, _)
check_cells(cells, to_check) ==
    IF to_check = <<>> THEN "ok"
    ELSE LET row == to_check[1][1]
             column == to_check[1][2]
             cell == cells[row + 1][column + 1]
             after(extended) ==
                IF extended.raised # "" THEN extended.raised
                ELSE check_cells(cells, extended.to_check)
         IN  IF cell.type # "Cell" THEN "CellExpectedError"
             ELSE IF cell.columns = 1 /\ cell.rows = 1
             THEN check_cells(cells, Tail(to_check))
             ELSE after(check_extended_cells(
                            cells, row, column, cell,
                            extended_coordinates(row, column,
                                                 cell.rows, cell.columns),
                            Tail(to_check)))

\* (row, column) for every row and column of a rows x columns table, in
\* raster scan order.
raster(rows, columns) ==
    [k \in 1..(rows * columns) |->
        <<(k - 1) \div columns, (k - 1) % columns>>]

\* Table(cells) without the while loop of __post_init__ that checks the
\* cells.
Table_without_cell_checks(cells) ==
    IF Len(cells) = 0 THEN Raise("EmptyTableError")
    ELSE IF Len(cells[1]) = 0 THEN Raise("EmptyTableError")
    ELSE IF \E r \in 1..Len(cells) : Len(cells[r]) # Len(cells[1])
    THEN Raise("MissingCellError")
    ELSE [kind |-> "Table", cells |-> cells]

\* Table(cells): the dataclass after __post_init__ or the exception raised.
Table(cells) ==
    IF Len(cells) = 0 THEN Raise("EmptyTableError")
    ELSE IF Len(cells[1]) = 0 THEN Raise("EmptyTableError")
    ELSE IF \E r \in 1..Len(cells) : Len(cells[r]) # Len(cells[1])
    THEN Raise("MissingCellError")
    ELSE LET outcome == check_cells(cells, raster(Len(cells), Len(cells[1])))
         IN  IF outcome = "ok" THEN [kind |-> "Table", cells |-> cells]
             ELSE Raise(outcome)

table_rows(table) == Len(table.cells)

table_columns(table) == Len(table.cells[1])

\* Table.__getitem__
table_get(table, row, column) == table.cells[row + 1][column + 1]

\* dict[key] = cell: a new key goes to the end, an old key keeps its place.
dict_set(dict, key, cell) ==
    IF \E k \in 1..Len(dict) : dict[k].key = key
    THEN [k \in 1..Len(dict) |->
            IF dict[k].key = key THEN [key |-> key, cell |-> cell] ELSE dict[k]]
    ELSE Append(dict, [key |-> key, cell |-> cell])

\* The populating loop of from_dict: the list of lists, or <<>> when an
\* item lies outside of it (IndexError).
RECURSIVE populate(_, _)
populate(items, cells) ==
    IF items = <<>> THEN cells
    ELSE LET row == items[1].key[1]
             column == items[1].key[2]
             cell == items[1].cell
         IN  IF row >= Len(cells) THEN <<>>
             ELSE IF column >= Len(cells[row + 1]) THEN <<>>
             ELSE populate(
                    Tail(items),
                    [r \in 1..Len(cells) |->
                        [c \in 1..Len(cells[r]) |->
                            IF r - 1 = row /\ c - 1 = column THEN cell
                            ELSE IF /\ r - 1 \in row..(row + cell.rows - 1)
                                    /\ c - 1 \in
                                        column..(column + cell.columns - 1)
                            THEN ExtendedCell(cell, r - 1 - row, c - 1 - column)
                            ELSE cells[r][c]]])

\* The tail of from_dict: the check for missing cells and cls(cells).
populated_table(cells) ==
    IF cells = <<>> THEN Raise("IndexError")
    ELSE IF \E r \in 1..Len(cells) :
                \E c \in 1..Len(cells[r]) : cells[r][c] = None
    THEN Raise("MissingCellError")
    ELSE Table(cells)

\* Table.from_dict
from_dict(table_dict) ==
    IF table_dict = <<>> THEN Raise("EmptyTableError")
    ELSE LET rows == Max({table_dict[k].key[1] + table_dict[k].cell.rows :
                                k \in 1..Len(table_dict)})
             columns == Max({table_dict[k].key[2] + table_dict[k].cell.columns :
                                k \in 1..Len(table_dict)})
         IN  populated_table(
                populate(table_dict,
                         [r \in 1..rows |-> [c \in 1..columns |-> None]]))

\* Table.to_dict: the Cells in raster scan order.
to_dict(table) ==
    LET coordinates ==
            SelectSeq(raster(table_rows(table), table_columns(table)),
                      LAMBDA c : table_get(table, c[1], c[2]).type = "Cell")
    IN  [k \in 1..Len(coordinates) |->
            [key |-> coordinates[k],
             cell |-> table_get(table, coordinates[k][1], coordinates[k][2])]]

\* The inner loop of combine_tables: the items of one table put into out.
RECURSIVE dict_update(_, _, _, _)
dict_update(dict, items, row_offset, column_offset) ==
    IF items = <<>> THEN dict
    ELSE dict_update(dict_set(dict,
                              <<items[1].key[1] + row_offset,
                                items[1].key[2] + column_offset>>,
                              items[1].cell),
                     Tail(items), row_offset, column_offset)

\* The outer loop of combine_tables: the dict out.
RECURSIVE combined_dict(_, _, _, _, _)
combined_dict(tables, axis, row_offset, column_offset, result) ==
    IF tables = <<>> THEN result
    ELSE combined_dict(
            Tail(tables), axis,
            IF axis = 0 THEN row_offset + table_rows(tables[1]) ELSE row_offset,
            IF axis = 1 THEN column_offset + table_columns(tables[1])
            ELSE column_offset,
            dict_update(result, to_dict(tables[1]), row_offset, column_offset))

combine_tables(tables, axis) ==
    IF \E k \in 1..Len(tables) : IsError(tables[k]) THEN FirstError(tables)
    ELSE from_dict(combined_dict(tables, axis, 0, 0, <<>>))

\* to_cell_coord of set_border_around_table, also computed by
\* right_pad_table: where the Cell covering (row, column) is.
to_cell_coord(table, row, column) ==
    LET cell_or_extended_cell == table_get(table, row, column)
    IN  IF cell_or_extended_cell.type = "Cell" THEN <<row, column>>
        ELSE <<row - cell_or_extended_cell.drow,
               column - cell_or_extended_cell.dcolumn>>

\* right_pad_table that moves nothing: narrower tables stay narrower.
right_pad_table_not_padding(table, columns) == table

right_pad_table(table, columns) ==
    IF IsError(table) THEN table
    ELSE IF table_columns(table) >= columns THEN table
    ELSE LET rightmost_cell_coordinates ==
                {to_cell_coord(table, row, table_columns(table) - 1) :
                    row \in 0..(table_rows(table) - 1)}
             items == to_dict(table)
         IN  from_dict(
                [k \in 1..Len(items) |->
                    IF items[k].key \notin rightmost_cell_coordinates
                    THEN items[k]
                    ELSE [items[k] EXCEPT
                            !.cell.columns = columns - items[k].key[2]]])

set_border_around_table(table, border_type) ==
    IF IsError(table) THEN table
    ELSE LET rows == table_rows(table)
             columns == table_columns(table)
             left_edge_cells ==
                {to_cell_coord(table, row, 0) : row \in 0..(rows - 1)}
             right_edge_cells ==
                {to_cell_coord(table, row, columns - 1) : row \in 0..(rows - 1)}
             top_edge_cells ==
                {to_cell_coord(table, 0, column) : column \in 0..(columns - 1)}
             bottom_edge_cells ==
                {to_cell_coord(table, rows - 1, column) :
                    column \in 0..(columns - 1)}
             cell_with_new_border(key, cell) ==
                [cell EXCEPT
                    !.border_left =
                        IF key \in left_edge_cells THEN border_type ELSE @,
                    !.border_right =
                        IF key \in right_edge_cells THEN border_type ELSE @,
                    !.border_top =
                        IF key \in top_edge_cells THEN border_type ELSE @,
                    !.border_bottom =
                        IF key \in bottom_edge_cells THEN border_type ELSE @]
             items == to_dict(table)
         IN  from_dict(
                [k \in 1..Len(items) |->
                    [key |-> items[k].key,
                     cell |-> cell_with_new_border(items[k].key,
                                                   items[k].cell)]])

\* ------------------------------------------------------------------------
\* Recipe trees as tables (recipe_grid/renderer/recipe_to_table.py)
\* ------------------------------------------------------------------------

\* Table.from_dict({(0, 0): cell})
single_cell_table(cell) == from_dict(<<[key |-> <<0, 0>>, cell |-> cell]>>)

\* The end of the Ingredient, Reference and Step branches.
bordered_if_root(table, root) ==
    IF root THEN set_border_around_table(table, "sub_recipe") ELSE table

\* "Add step to RHS of inputs"
step_beside_inputs(recipe_tree, combined_input_tables, root) ==
    IF IsError(combined_input_tables) THEN combined_input_tables
    ELSE bordered_if_root(
            combine_tables(
                <<combined_input_tables,
                  single_cell_table(
                      plain_cell(recipe_tree,
                                 table_rows(combined_input_tables), 1))>>,
                1),
            root)

\* The Step branch, given the tables of the inputs.
step_to_table(recipe_tree, input_tables, root) ==
    IF \E k \in 1..Len(input_tables) : IsError(input_tables[k])
    THEN FirstError(input_tables)
    ELSE IF input_tables = <<>> THEN Raise("ValueError")
    ELSE \* Pad all input tables to same width and stack them up
         LET input_columns == Max({table_columns(input_tables[k]) :
                                        k \in 1..Len(input_tables)})
         IN  step_beside_inputs(
                recipe_tree,
                combine_tables(
                    [k \in 1..Len(input_tables) |->
                        right_pad_table(input_tables[k], input_columns)],
                    0),
                root)

\* The SubRecipe branch taking every SubRecipe for one with a single output.
sub_recipe_to_table_as_single_output(recipe_tree, sub_tree_table) ==
    IF IsError(sub_tree_table) THEN sub_tree_table
    ELSE IF recipe_tree.show_output_names
    THEN set_border_around_table(
            combine_tables(
                <<single_cell_table(
                      plain_cell(recipe_tree, 1, table_columns(sub_tree_table))),
                  sub_tree_table>>,
                0),
            "sub_recipe")
    ELSE set_border_around_table(sub_tree_table, "sub_recipe")

\* The SubRecipe branch, given the table of the sub tree.
sub_recipe_to_table(recipe_tree, sub_tree_table) ==
    IF IsError(sub_tree_table) THEN sub_tree_table
    ELSE IF Len(recipe_tree.output_names) = 1
    THEN IF recipe_tree.show_output_names
         THEN set_border_around_table(
                combine_tables(
                    <<single_cell_table(
                          plain_cell(recipe_tree, 1,
                                     table_columns(sub_tree_table))),
                      sub_tree_table>>,
                    0),
                "sub_recipe")
         ELSE set_border_around_table(sub_tree_table, "sub_recipe")
    ELSE combine_tables(
            <<set_border_around_table(sub_tree_table, "sub_recipe"),
              single_cell_table(
                  Cell(recipe_tree, table_rows(sub_tree_table), 1,
                       "normal", "none", "none", "none"))>>,
            1)

RECURSIVE recipe_tree_to_table(_, _)
recipe_tree_to_table(recipe_tree, root) ==
    CASE recipe_tree.kind \in {"Ingredient", "Reference"} ->
            bordered_if_root(Table(<<<<plain_cell(recipe_tree, 1, 1)>>>>), root)
      [] recipe_tree.kind = "Step" ->
            step_to_table(
                recipe_tree,
                [k \in 1..Len(recipe_tree.inputs) |->
                    recipe_tree_to_table(recipe_tree.inputs[k], FALSE)],
                root)
      [] recipe_tree.kind = "SubRecipe" ->
            sub_recipe_to_table(
                recipe_tree,
                recipe_tree_to_table(recipe_tree.sub_tree, FALSE))

\* ------------------------------------------------------------------------
\* AST nodes (recipe_grid/parser/ast.py); source offsets are represented by
\* the position of the node in the sources (block, statement, path).
\* ------------------------------------------------------------------------

ast_Substring(string) == [type |-> "Substring", string |-> string]

ast_InterpolatedValue(number) == [type |-> "InterpolatedValue", number |-> number]

ast_String(substrings) == [substrings |-> substrings]

ast_Quantity(value, unit, value_unit_spacing, preposition) ==
    [type |-> "Quantity", value |-> value, unit |-> unit,
     value_unit_spacing |-> value_unit_spacing, preposition |-> preposition]

ast_Proportion(value, percentage, remainder_wording, preposition) ==
    [type |-> "Proportion", value |-> value, percentage |-> percentage,
     remainder_wording |-> remainder_wording, preposition |-> preposition]

ast_Reference(name, quantity_or_proportion) ==
    [type |-> "Reference", name |-> name,
     quantity_or_proportion |-> quantity_or_proportion]

ast_Step(name, inputs) == [type |-> "Step", name |-> name, inputs |-> inputs]

ast_Stmt(expr, outputs, named) ==
    [expr |-> expr, outputs |-> outputs, named |-> named]

\* ------------------------------------------------------------------------
\* Compiler helpers (recipe_grid/compiler.py)
\* ------------------------------------------------------------------------

\* normalise_output_name without the lower-casing.
normalise_output_name_keeping_case(name) == svs_strip(name)

normalise_output_name(name) == svs_lower(svs_strip(name))

RECURSIVE infer_output_name(_)
infer_output_name(recipe_tree) ==
    IF recipe_tree.kind = "Ingredient" THEN <<recipe_tree.description>>
    ELSE IF recipe_tree.kind = "Step" /\ Len(recipe_tree.inputs) = 1
    THEN infer_output_name(recipe_tree.inputs[1])
    ELSE <<>>

RECURSIVE infer_quantity(_)
infer_quantity(recipe_tree) ==
    IF recipe_tree.kind = "Ingredient" THEN recipe_tree.quantity
    ELSE IF recipe_tree.kind = "Step" /\ Len(recipe_tree.inputs) = 1
    THEN infer_quantity(recipe_tree.inputs[1])
    ELSE IF recipe_tree.kind = "SubRecipe" /\ Len(recipe_tree.output_names) = 1
    THEN infer_quantity(recipe_tree.sub_tree)
    ELSE <<>>

compile_string(ast_string) ==
    ScaledValueString(
        [i \in 1..Len(ast_string.substrings) |->
            LET part == ast_string.substrings[i]
            IN  IF part.type = "Substring" THEN Txt(part.string)
                ELSE IF part.type = "InterpolatedValue" THEN Num(part.number)
                ELSE Txt(<<>>)])

\* str(unit_string): the grammar admits no interpolated value in a unit, so
\* rendering concatenates the text parts.
RECURSIVE render_text(_)
render_text(string) ==
    IF string = <<>> THEN <<>>
    ELSE (IF IsStr(Head(string)) THEN Head(string).s ELSE <<>>)
         \o render_text(Tail(string))

compile_quantity(ast_quantity) ==
    Quantity(ast_quantity.value,
             IF ast_quantity.unit # <<>>
             THEN <<render_text(compile_string(ast_quantity.unit[1]))>>
             ELSE <<>>,
             ast_quantity.value_unit_spacing,
             ast_quantity.preposition)

compile_proportion(ast_proportion) ==
    Proportion(ast_proportion.value,
               IF ast_proportion.value # <<>>
               THEN <<ast_proportion.percentage>> ELSE <<>>,
               ast_proportion.remainder_wording,
               ast_proportion.preposition)

compile_quantity_or_proportion(ast_quantity_or_proportion) ==
    IF ast_quantity_or_proportion = <<>>
    THEN Proportion(<<Whole(1)>>, <<>>, <<>>, "")
    ELSE IF ast_quantity_or_proportion[1].type = "Quantity"
    THEN compile_quantity(ast_quantity_or_proportion[1])
    ELSE compile_proportion(ast_quantity_or_proportion[1])

\* ------------------------------------------------------------------------
\* NamedOutput and the table self._named_outputs, an OrderedDict kept as
\* the sequence of its values in insertion order, each with its key.
\* ------------------------------------------------------------------------

NamedOutput(key, name, definition_recipe_index, sub_recipe, output_index, unwrap_subrecipe_when_inlined) ==
    [key |-> key, name |-> name,
     definition_recipe_index |-> definition_recipe_index,
     sub_recipe |-> sub_recipe, output_index |-> output_index,
     references |-> <<>>,
     unwrap_subrecipe_when_inlined |-> unwrap_subrecipe_when_inlined]

\* Position of a key in the table, 0 when it is not in the table.
lookup(outputs, key) ==
    IF \E i \in 1..Len(outputs) : outputs[i].key = key
    THEN CHOOSE i \in 1..Len(outputs) : outputs[i].key = key
    ELSE 0

\* NamedOutput.substitute that leaves the entry as it is.
named_output_not_substituted(self, old, new) == self

named_output_substitute(self, old, new) ==
    [self EXCEPT
        !.sub_recipe = substitute(self.sub_recipe, old, new),
        !.references =
            [i \in 1..Len(self.references) |->
                [ref |-> IF old # self.references[i].ref
                         THEN substitute(self.references[i].ref, old, new)
                         ELSE self.references[i].ref,
                 ind |-> self.references[i].ind]]]

\* can_be_inlined without the check that the sub-recipe is defined and used
\* in the same recipe block.
can_be_inlined_in_any_block(self) ==
    LET inferred_quantity == infer_quantity(self.sub_recipe)
    IN  /\ Len(self.sub_recipe.output_names) = 1
        /\ Len(self.references) = 1
        /\ \/ /\ self.references[1].ref.amount.type = "Proportion"
              /\ \/ self.references[1].ref.amount.value = <<>>
                 \/ self.references[1].ref.amount.value = <<Whole(1)>>
           \/ /\ self.references[1].ref.amount.type = "Quantity"
              /\ inferred_quantity # <<>>
              /\ has_equal_value_to(self.references[1].ref.amount,
                                    inferred_quantity[1])

\* can_be_inlined taking a reference to the remainder (value None) for a
\* part of the sub-recipe.
can_be_inlined_without_remainder(self) ==
    LET inferred_quantity == infer_quantity(self.sub_recipe)
    IN  /\ Len(self.sub_recipe.output_names) = 1
        /\ Len(self.references) = 1
        /\ self.references[1].ind = self.definition_recipe_index
        /\ \/ /\ self.references[1].ref.amount.type = "Proportion"
              /\ self.references[1].ref.amount.value = <<Whole(1)>>
           \/ /\ self.references[1].ref.amount.type = "Quantity"
              /\ inferred_quantity # <<>>
              /\ has_equal_value_to(self.references[1].ref.amount,
                                    inferred_quantity[1])

can_be_inlined(self) ==
    LET inferred_quantity == infer_quantity(self.sub_recipe)
    IN  /\ Len(self.sub_recipe.output_names) = 1
        /\ Len(self.references) = 1
        /\ self.references[1].ind = self.definition_recipe_index
        /\ \/ /\ self.references[1].ref.amount.type = "Proportion"
              /\ \/ self.references[1].ref.amount.value = <<>>
                 \/ self.references[1].ref.amount.value = <<Whole(1)>>
           \/ /\ self.references[1].ref.amount.type = "Quantity"
              /\ inferred_quantity # <<>>
              /\ has_equal_value_to(self.references[1].ref.amount,
                                    inferred_quantity[1])

\* ------------------------------------------------------------------------
\* Statement compilation.  The result of compiling is the record
\* [tree, outputs, raised]: the tree, the updated table and the exception
\* raised (<<>> when none), with the AST node it is located at.
\* ------------------------------------------------------------------------

Raised(error, node, path) == <<[error |-> error, node |-> node, path |-> path]>>

Compiled(tree, outputs) ==
    IF IsError(tree)
    THEN [tree |-> tree, outputs |-> outputs,
          raised |-> Raised(tree.error, <<>>, <<>>)]
    ELSE [tree |-> tree, outputs |-> outputs, raised |-> <<>>]

\* _compile_reference without the check for a Proportion given to a name
\* that matches no output: an Ingredient without quantity is made.
compile_reference_allowing_proportions(ast_reference, outputs, current_recipe_index, path) ==
    LET name == compile_string(ast_reference.name)
        normalised_name == normalise_output_name(name)
        pos == lookup(outputs, normalised_name)
    IN  IF pos # 0
        THEN LET output == outputs[pos]
                 reference ==
                    Reference(output.sub_recipe, output.output_index,
                              compile_quantity_or_proportion(
                                  ast_reference.quantity_or_proportion))
             IN  Compiled(reference,
                          [outputs EXCEPT ![pos].references =
                            Append(@, [ref |-> reference,
                                       ind |-> current_recipe_index])])
        ELSE Compiled(
                Ingredient(name,
                    IF /\ ast_reference.quantity_or_proportion # <<>>
                       /\ ast_reference.quantity_or_proportion[1].type = "Quantity"
                    THEN <<compile_quantity(
                                ast_reference.quantity_or_proportion[1])>>
                    ELSE <<>>),
                outputs)

\* _compile_reference taking every name for an ingredient, registered or
\* not.
compile_reference_as_ingredient(ast_reference, outputs, current_recipe_index, path) ==
    IF /\ ast_reference.quantity_or_proportion # <<>>
       /\ ast_reference.quantity_or_proportion[1].type = "Proportion"
    THEN [tree |-> Raise("ProportionGivenForIngredientError"),
          outputs |-> outputs,
          raised |-> Raised("ProportionGivenForIngredientError",
                            <<ast_reference>>, path)]
    ELSE Compiled(
            Ingredient(compile_string(ast_reference.name),
                IF ast_reference.quantity_or_proportion # <<>>
                THEN <<compile_quantity(
                            ast_reference.quantity_or_proportion[1])>>
                ELSE <<>>),
            outputs)

compile_reference(ast_reference, outputs, current_recipe_index, path) ==
    LET name == compile_string(ast_reference.name)
        normalised_name == normalise_output_name(name)
        pos == lookup(outputs, normalised_name)
    IN  IF pos # 0
        THEN LET output == outputs[pos]
                 reference ==
                    Reference(output.sub_recipe, output.output_index,
                              compile_quantity_or_proportion(
                                  ast_reference.quantity_or_proportion))
             IN  Compiled(reference,
                          [outputs EXCEPT ![pos].references =
                            Append(@, [ref |-> reference,
                                       ind |-> current_recipe_index])])
        ELSE IF /\ ast_reference.quantity_or_proportion # <<>>
                /\ ast_reference.quantity_or_proportion[1].type = "Proportion"
        THEN [tree |-> Raise("ProportionGivenForIngredientError"),
              outputs |-> outputs,
              raised |-> Raised("ProportionGivenForIngredientError",
                                <<ast_reference>>, path)]
        ELSE Compiled(
                Ingredient(name,
                    IF ast_reference.quantity_or_proportion # <<>>
                    THEN <<compile_quantity(
                                ast_reference.quantity_or_proportion[1])>>
                    ELSE <<>>),
                outputs)

RECURSIVE compile_expr(_, _, _, _)
RECURSIVE compile_inputs(_, _, _, _, _, _)

\* The generator of _compile_step: the inputs are compiled left to right,
\* each seeing the references appended by the ones before it.
compile_inputs(ast_inputs, i, trees, outputs, current_recipe_index, path) ==
    IF i > Len(ast_inputs)
    THEN [trees |-> trees, outputs |-> outputs, raised |-> <<>>]
    ELSE LET r == compile_expr(ast_inputs[i], outputs, current_recipe_index,
                               Append(path, i - 1))
         IN  IF r.raised # <<>>
             THEN [trees |-> trees, outputs |-> r.outputs, raised |-> r.raised]
             ELSE compile_inputs(ast_inputs, i + 1, Append(trees, r.tree),
                                 r.outputs, current_recipe_index, path)

compile_step(ast_step, outputs, current_recipe_index, path) ==
    LET r == compile_inputs(ast_step.inputs, 1, <<>>, outputs,
                            current_recipe_index, path)
    IN  IF r.raised # <<>>
        THEN [tree |-> Raise(r.raised[1].error), outputs |-> r.outputs,
              raised |-> r.raised]
        ELSE Compiled(Step(compile_string(ast_step.name), r.trees), r.outputs)

compile_expr(ast_expr, outputs, current_recipe_index, path) ==
    IF ast_expr.type = "Step"
    THEN compile_step(ast_expr, outputs, current_recipe_index, path)
    ELSE compile_reference(ast_expr, outputs, current_recipe_index, path)

\* The loop of _compile_stmt, reporting a collision at the first output of
\* the statement instead of at the colliding one.
RECURSIVE register_outputs_blaming_first_output(_, _, _, _, _, _)
register_outputs_blaming_first_output(ast_stmt, output_names, output_index, recipe_tree, outputs, current_recipe_index) ==
    IF output_index >= Len(output_names)
    THEN [tree |-> recipe_tree, outputs |-> outputs, raised |-> <<>>]
    ELSE LET output_name == output_names[output_index + 1]
             normalised_output_name == normalise_output_name(output_name)
         IN  IF lookup(outputs, normalised_output_name) # 0
             THEN IF ast_stmt.outputs = <<>>
                  THEN [tree |-> recipe_tree, outputs |-> outputs,
                        raised |-> Raised("AssertionError", <<>>, <<>>)]
                  ELSE [tree |-> recipe_tree, outputs |-> outputs,
                        raised |-> Raised("NameRedefinedError",
                                    <<ast_stmt.outputs[1]>>, <<0>>)]
             ELSE register_outputs_blaming_first_output(
                    ast_stmt, output_names, output_index + 1, recipe_tree,
                    Append(outputs,
                           NamedOutput(normalised_output_name, output_name,
                                       current_recipe_index, recipe_tree,
                                       output_index, ~ast_stmt.named)),
                    current_recipe_index)

\* The loop of _compile_stmt that registers the output names.
RECURSIVE register_outputs(_, _, _, _, _, _)
register_outputs(ast_stmt, output_names, output_index, recipe_tree, outputs, current_recipe_index) ==
    IF output_index >= Len(output_names)
    THEN [tree |-> recipe_tree, outputs |-> outputs, raised |-> <<>>]
    ELSE LET output_name == output_names[output_index + 1]
             normalised_output_name == normalise_output_name(output_name)
         IN  IF lookup(outputs, normalised_output_name) # 0
             THEN IF ast_stmt.outputs = <<>>
                  THEN [tree |-> recipe_tree, outputs |-> outputs,
                        raised |-> Raised("AssertionError", <<>>, <<>>)]
                  ELSE [tree |-> recipe_tree, outputs |-> outputs,
                        raised |-> Raised("NameRedefinedError",
                                    <<ast_stmt.outputs[output_index + 1]>>,
                                    <<output_index>>)]
             ELSE register_outputs(
                    ast_stmt, output_names, output_index + 1, recipe_tree,
                    Append(outputs,
                           NamedOutput(normalised_output_name, output_name,
                                       current_recipe_index, recipe_tree,
                                       output_index, ~ast_stmt.named)),
                    current_recipe_index)

compile_stmt(ast_stmt, outputs, current_recipe_index) ==
    LET e == compile_expr(ast_stmt.expr, outputs, current_recipe_index, <<>>)
    IN  IF e.raised # <<>> THEN e
        ELSE LET inferred_output_name ==
                    IF ast_stmt.outputs # <<>> THEN <<>>
                    ELSE infer_output_name(e.tree)
                 output_name_inferred == inferred_output_name # <<>>
                 output_names ==
                    IF ast_stmt.outputs # <<>>
                    THEN [i \in 1..Len(ast_stmt.outputs) |->
                            compile_string(ast_stmt.outputs[i])]
                    ELSE inferred_output_name
             IN  IF output_names = <<>> THEN e
                 ELSE LET recipe_tree == SubRecipe(e.tree, output_names,
                                                   ~output_name_inferred)
                      IN  IF IsError(recipe_tree)
                          THEN Compiled(recipe_tree, e.outputs)
                          ELSE register_outputs(ast_stmt, output_names, 0,
                                                recipe_tree, e.outputs,
                                                current_recipe_index)

\* ------------------------------------------------------------------------
\* The sources: the statements a block may consist of.
\* ------------------------------------------------------------------------

MaxStmts == 3

MaxBlocks == 2

name_a == ast_String(<<ast_Substring(<<"a">>)>>)
name_A == ast_String(<<ast_Substring(<<"A", " ">>)>>)
name_b == ast_String(<<ast_Substring(<<"b">>)>>)
name_c == ast_String(<<ast_Substring(<<"c">>)>>)
name_C == ast_String(<<ast_Substring(<<"C">>)>>)
name_f == ast_String(<<ast_Substring(<<"f">>)>>)

one_kg == ast_Quantity(Whole(1), <<ast_String(<<ast_Substring(unit_kg)>>)>>, "", "")
thousand_g ==
    ast_Quantity(Whole(1000), <<ast_String(<<ast_Substring(<<"G">>)>>)>>, "", "")
thousand_kg ==
    ast_Quantity(Whole(1000), <<ast_String(<<ast_Substring(unit_kg)>>)>>, "", "")
half == ast_Proportion(<<Frac(1, 2)>>, FALSE, <<>>, " *")
remainder == ast_Proportion(<<>>, FALSE, <<"remainder">>, " of")

\* The statements of the model, in the recipe syntax:
\*   1kg a        1000G a       1000kg a      1/2 * a       remainder of a
\*   f(a)         b = f(a)      b, c = f(a)   "A " = f(a)   b := f(a)
\*   f(a, 1/2 * a)              c, c = b      f(1kg b)      f(b, C)
ref(name, amount) == ast_Reference(name, amount)

Stmts ==
    {ast_Stmt(ref(name_a, amount), <<>>, FALSE) :
        amount \in {<<one_kg>>, <<thousand_g>>, <<thousand_kg>>,
                    <<half>>, <<remainder>>}}
    \cup {ast_Stmt(ast_Step(name_f, <<ref(name_a, <<>>)>>), outputs, FALSE) :
            outputs \in {<<>>, <<name_b>>, <<name_b, name_c>>, <<name_A>>}}
    \cup {ast_Stmt(ast_Step(name_f, <<ref(name_a, <<>>)>>), <<name_b>>, TRUE),
          ast_Stmt(ast_Step(name_f, <<ref(name_a, <<>>), ref(name_a, <<half>>)>>),
                   <<>>, FALSE),
          ast_Stmt(ref(name_b, <<>>), <<name_c, name_c>>, FALSE),
          ast_Stmt(ast_Step(name_f, <<ref(name_b, <<one_kg>>)>>), <<>>, FALSE),
          ast_Stmt(ast_Step(name_f, <<ref(name_b, <<>>), ref(name_C, <<>>)>>),
                   <<>>, FALSE)}

\* ------------------------------------------------------------------------
\* RecipeCompiler.compile as a state machine
\* ------------------------------------------------------------------------

VARIABLES
    pc,                         \* position in compile()
    ast_recipes,                \* the blocks parsed so far (the input)
    recipe_block_recipe_trees,  \* per block, its list of recipe trees
    named_outputs,              \* self._named_outputs
    inline_index,               \* position of the inlining loop
    out,                        \* the list of Recipe objects returned
    error,                      \* the exception compile() raised, if any
    definition_site,            \* per named output: where it was defined
    inlined,                    \* positions of the named outputs inlined
    nodes,                      \* the recipe tree nodes a caller has built
    trees_so_far,               \* the trees a caller collects for a Recipe
    last_recipe,                \* the Recipe the caller's next one follows
    op,                         \* the last call into the data model
    returned,                   \* what that call returned or raised
    given_cells                 \* the list of lists a caller hands to Table

\* The state of a direct user of the data model (recipe_grid/recipe.py).
model_vars == <<nodes, trees_so_far, last_recipe, op, returned, given_cells>>

compile_vars == <<pc, ast_recipes, recipe_block_recipe_trees, named_outputs,
                  inline_index, out, error, definition_site, inlined>>

vars == <<compile_vars, model_vars>>

NoCall == [name |-> "none", args |-> <<>>, output_index |-> 0]

\* No direct use of the data model has been made.
ModelUnused ==
    /\ nodes = {}
    /\ trees_so_far = <<>>
    /\ last_recipe = <<>>
    /\ op = NoCall
    /\ returned = <<>>
    /\ given_cells = <<>>

Last(seq) == seq[Len(seq)]

RECURSIVE SumLen(_)
SumLen(seqs) == IF seqs = <<>> THEN 0 ELSE Len(Head(seqs)) + SumLen(Tail(seqs))

Init ==
    /\ pc = "compile"
    /\ ast_recipes = <<>>
    /\ recipe_block_recipe_trees = <<>>
    /\ named_outputs = <<>>
    /\ inline_index = 0
    /\ out = <<>>
    /\ error = <<>>
    /\ definition_site = <<>>
    /\ inlined = {}
    /\ ModelUnused

\* The outer loop of compile() moves on to the next source block.
NextBlock ==
    /\ pc = "compile"
    /\ IF ast_recipes = <<>> THEN TRUE ELSE Last(ast_recipes) # <<>>
    /\ SumLen(ast_recipes) < MaxStmts
    /\ Len(ast_recipes) < MaxBlocks
    /\ ast_recipes' = Append(ast_recipes, <<>>)
    /\ recipe_block_recipe_trees' = Append(recipe_block_recipe_trees, <<>>)
    /\ UNCHANGED <<pc, named_outputs, inline_index, out, error,
                   definition_site, inlined>>
    /\ UNCHANGED model_vars

\* recipe_trees.append(self._compile_stmt(ast_stmt)) for the next statement
\* of the current block, a statement of the given alphabet.
CompileStmtFrom(statements) ==
    /\ pc = "compile"
    /\ ast_recipes # <<>>
    /\ SumLen(ast_recipes) < MaxStmts
    /\ \E ast_stmt \in statements :
        \E r \in {compile_stmt(ast_stmt, named_outputs, Len(ast_recipes) - 1)} :
        LET current_recipe_index == Len(ast_recipes) - 1
        IN  /\ ast_recipes' =
                [ast_recipes EXCEPT ![Len(ast_recipes)] = Append(@, ast_stmt)]
            /\ named_outputs' = r.outputs
            /\ definition_site' =
                definition_site
                \o [i \in 1..(Len(r.outputs) - Len(named_outputs)) |->
                        [block |-> current_recipe_index,
                         stmt |-> Len(Last(ast_recipes)),
                         output |-> i - 1]]
            /\ IF r.raised # <<>>
               THEN /\ pc' = "error"
                    /\ error' = <<[error |-> r.raised[1].error,
                                   node |-> r.raised[1].node,
                                   path |-> r.raised[1].path,
                                   block |-> current_recipe_index,
                                   stmt |-> Len(Last(ast_recipes))]>>
                    /\ UNCHANGED recipe_block_recipe_trees
               ELSE /\ recipe_block_recipe_trees' =
                        [recipe_block_recipe_trees
                            EXCEPT ![Len(ast_recipes)] = Append(@, r.tree)]
                    /\ UNCHANGED <<pc, error>>
    /\ UNCHANGED <<inline_index, out, inlined>>
    /\ UNCHANGED model_vars

CompileStmt == CompileStmtFrom(Stmts)

\* The loop over the blocks is exhausted.
EndOfSources ==
    /\ pc = "compile"
    /\ IF ast_recipes = <<>> THEN TRUE ELSE Last(ast_recipes) # <<>>
    /\ pc' = "inline"
    /\ UNCHANGED <<ast_recipes, recipe_block_recipe_trees, named_outputs,
                   inline_index, out, error, definition_site, inlined>>
    /\ UNCHANGED model_vars

\* list.remove(x) leaving the list as it is.
list_remove_nothing(list, x) ==
    IF \E i \in 1..Len(list) : list[i] = x THEN <<list>> ELSE <<>>

\* list.remove(x): <<the list without the first element equal to x>>, or
\* <<>> for the ValueError raised when there is none.
list_remove(list, x) ==
    IF \E i \in 1..Len(list) : list[i] = x
    THEN LET i == CHOOSE i \in 1..Len(list) :
                    /\ list[i] = x
                    /\ \A j \in 1..(i - 1) : list[j] # x
         IN  <<SubSeq(list, 1, i - 1) \o SubSeq(list, i + 1, Len(list))>>
    ELSE <<>>

\* The exceptions raised while substituting into the block trees or into
\* the table.
raised_in(blocks, outputs) ==
    {blocks[b][t].error : <<b, t>> \in
        {bt \in (1..Len(blocks)) \X (1..MaxStmts + 1) :
            /\ bt[2] <= Len(blocks[bt[1]])
            /\ IsError(blocks[bt[1]][bt[2]])}}
    \cup {outputs[i].sub_recipe.error : i \in
            {i \in 1..Len(outputs) : IsError(outputs[i].sub_recipe)}}
    \cup UNION {{outputs[i].references[j].ref.error : j \in
                    {j \in 1..Len(outputs[i].references) :
                        IsError(outputs[i].references[j].ref)}} :
                i \in 1..Len(outputs)}

\* tree_to_inline ignoring the flag: always the unwrapped sub-tree.
tree_to_inline_always_unwrapped(named_output) ==
    named_output.sub_recipe.sub_tree

\* "Unwrap the to-be-inlined SubTree if needed".
tree_to_inline(named_output) ==
    IF named_output.unwrap_subrecipe_when_inlined
    THEN named_output.sub_recipe.sub_tree
    ELSE named_output.sub_recipe

\* One iteration of "for named_output in self._named_outputs.values()".
InlineStep ==
    /\ pc = "inline"
    /\ inline_index < Len(named_outputs)
    /\ inline_index' = inline_index + 1
    /\ LET named_output == named_outputs[inline_index + 1]
       IN  IF can_be_inlined(named_output)
           THEN LET inline_tree == tree_to_inline(named_output)
                    definition_to_remove == named_output.sub_recipe
                    reference_to_replace == named_output.references[1].ref
                    block == named_output.definition_recipe_index + 1
                    removed == list_remove(recipe_block_recipe_trees[block],
                                           definition_to_remove)
                IN  IF removed = <<>>
                    THEN /\ pc' = "error"
                         /\ error' = <<[error |-> "ValueError", node |-> <<>>,
                                        path |-> <<>>, block |-> block - 1,
                                        stmt |-> 0]>>
                         /\ UNCHANGED <<recipe_block_recipe_trees,
                                        named_outputs, inlined>>
                    ELSE LET without ==
                                [recipe_block_recipe_trees
                                    EXCEPT ![block] = removed[1]]
                             blocks ==
                                [b \in 1..Len(without) |->
                                    [t \in 1..Len(without[b]) |->
                                        substitute(without[b][t],
                                                   reference_to_replace,
                                                   inline_tree)]]
                             outputs ==
                                [i \in 1..Len(named_outputs) |->
                                    named_output_substitute(
                                        named_outputs[i],
                                        reference_to_replace,
                                        inline_tree)]
                         IN  /\ recipe_block_recipe_trees' = blocks
                             /\ named_outputs' = outputs
                             /\ inlined' = inlined \cup {inline_index + 1}
                             /\ IF raised_in(recipe_block_recipe_trees',
                                             named_outputs') # {}
                                THEN /\ pc' = "error"
                                     /\ error' =
                                        <<[error |-> CHOOSE e \in
                                                raised_in(
                                                    recipe_block_recipe_trees',
                                                    named_outputs') : TRUE,
                                           node |-> <<>>, path |-> <<>>,
                                           block |-> block - 1, stmt |-> 0]>>
                                ELSE UNCHANGED <<pc, error>>
           ELSE UNCHANGED <<pc, recipe_block_recipe_trees, named_outputs,
                            error, inlined>>
    /\ UNCHANGED <<ast_recipes, out, definition_site>>
    /\ UNCHANGED model_vars

\* The loop "Create recipe objects" without "previous_recipe = recipe".
RECURSIVE create_recipes_unchained(_, _, _)
create_recipes_unchained(blocks, previous_recipe, result) ==
    IF blocks = <<>> THEN result
    ELSE LET recipe == Recipe(Head(blocks), previous_recipe)
         IN  IF IsError(recipe) THEN Append(result, recipe)
             ELSE create_recipes_unchained(Tail(blocks), previous_recipe,
                                           Append(result, recipe))

\* The loop "Create recipe objects".
RECURSIVE create_recipes(_, _, _)
create_recipes(blocks, previous_recipe, result) ==
    IF blocks = <<>> THEN result
    ELSE LET recipe == Recipe(Head(blocks), previous_recipe)
         IN  IF IsError(recipe) THEN Append(result, recipe)
             ELSE create_recipes(Tail(blocks), <<recipe>>,
                                 Append(result, recipe))

CreateRecipes ==
    /\ pc = "inline"
    /\ inline_index = Len(named_outputs)
    /\ LET result == create_recipes(recipe_block_recipe_trees, <<>>, <<>>)
       IN  IF result # <<>> /\ IsError(Last(result))
           THEN /\ pc' = "error"
                /\ error' = <<[error |-> Last(result).error, node |-> <<>>,
                               path |-> <<>>, block |-> Len(result) - 1,
                               stmt |-> 0]>>
                /\ UNCHANGED out
           ELSE /\ pc' = "done"
                /\ out' = result
                /\ UNCHANGED error
    /\ UNCHANGED <<ast_recipes, recipe_block_recipe_trees, named_outputs,
                   inline_index, definition_site, inlined>>
    /\ UNCHANGED model_vars

Next == NextBlock \/ CompileStmt \/ EndOfSources \/ InlineStep \/ CreateRecipes

Spec == Init /\ [][Next]_vars

\* ------------------------------------------------------------------------
\* The sources as the compiler's user sees them: what each statement
\* defines and refers to, read off the AST.
\* ------------------------------------------------------------------------

RECURSIVE Flatten(_)
Flatten(seqs) == IF seqs = <<>> THEN <<>> ELSE Head(seqs) \o Flatten(Tail(seqs))

\* The bare names of an expression, left to right, with their paths.
RECURSIVE ast_leaves(_, _)
ast_leaves(ast_expr, path) ==
    IF ast_expr.type = "Reference"
    THEN <<[leaf |-> ast_expr, path |-> path]>>
    ELSE Flatten([i \in 1..Len(ast_expr.inputs) |->
                    ast_leaves(ast_expr.inputs[i], Append(path, i - 1))])

\* The node of a compiled expression at the path of an AST node.
RECURSIVE node_at(_, _)
node_at(tree, path) ==
    IF path = <<>> THEN tree
    ELSE node_at(tree.inputs[Head(path) + 1], Tail(path))

\* The bare name at the bottom of a chain of single-input steps.
RECURSIVE single_leaf(_)
single_leaf(ast_expr) ==
    IF ast_expr.type = "Reference" THEN ast_expr
    ELSE single_leaf(ast_expr.inputs[1])

StmtAt(site) == ast_recipes[site.block + 1][site.stmt + 1]

SiteBefore(s1, s2) ==
    \/ s1.block < s2.block
    \/ s1.block = s2.block /\ s1.stmt < s2.stmt

\* The name, as written, of the i-th output defined by the sources.
DefinedName(i) ==
    LET site == definition_site[i]
        ast_stmt == StmtAt(site)
    IN  IF ast_stmt.outputs # <<>>
        THEN compile_string(ast_stmt.outputs[site.output + 1])
        ELSE compile_string(single_leaf(ast_stmt.expr).name)

\* Two names are the same name: equal once stripped and lower-cased.
SameName(n1, n2) == svs_lower(svs_strip(n1)) = svs_lower(svs_strip(n2))

\* The output a bare name written at the given site refers to (0: none).
DefinitionOf(name, site) ==
    LET defs == {i \in 1..Len(definition_site) :
                    /\ SiteBefore(definition_site[i], site)
                    /\ SameName(DefinedName(i), name)}
    IN  IF defs = {} THEN 0 ELSE CHOOSE i \in defs : TRUE

\* Every bare name of the sources: [block, stmt, leaf, path].
SourceLeaves ==
    UNION {UNION {
        LET leaves == ast_leaves(ast_recipes[b][t].expr, <<>>)
        IN  {[block |-> b - 1, stmt |-> t - 1, leaf |-> leaves[l].leaf,
              path |-> leaves[l].path] : l \in 1..Len(leaves)}
        : t \in 1..Len(ast_recipes[b])} : b \in 1..Len(ast_recipes)}

\* The places where the sources refer to the i-th output.
SourceRefs(i) ==
    {r \in SourceLeaves :
        /\ SiteBefore(definition_site[i], r)
        /\ SameName(DefinedName(i), compile_string(r.leaf.name))}

NumOutputs(i) ==
    IF StmtAt(definition_site[i]).outputs # <<>>
    THEN Len(StmtAt(definition_site[i]).outputs) ELSE 1

\* The total quantity of an expression written at a site: that of its single
\* ingredient, looking through single-input steps and through references to
\* sub-recipes that have been inlined.
RECURSIVE source_quantity(_, _)
source_quantity(ast_expr, site) ==
    IF ast_expr.type = "Step"
    THEN IF Len(ast_expr.inputs) = 1
         THEN source_quantity(ast_expr.inputs[1], site) ELSE <<>>
    ELSE LET j == DefinitionOf(compile_string(ast_expr.name), site)
         IN  IF j = 0
             THEN IF ast_expr.quantity_or_proportion # <<>>
                  THEN <<compile_quantity(ast_expr.quantity_or_proportion[1])>>
                  ELSE <<>>
             ELSE IF j \in inlined
             THEN source_quantity(StmtAt(definition_site[j]).expr,
                                  definition_site[j])
             ELSE <<>>

\* Two quantities denote the same amount: equal numbers of the same base
\* unit, or equal values without unit or in the same unregistered unit.
SameQuantity(q1, q2) ==
    IF q1.unit = <<>> \/ q2.unit = <<>>
    THEN q1.unit = q2.unit /\ q1.value = q2.value
    ELSE LET u1 == str_lower(q1.unit[1])
             u2 == str_lower(q2.unit[1])
         IN  IF name_to_unit_set(u1) # <<>> /\ name_to_unit_set(u2) # <<>>
             THEN /\ name_to_unit_set(u1) = name_to_unit_set(u2)
                  /\ NumMul(q1.value, in_base_units(u1))
                        = NumMul(q2.value, in_base_units(u2))
             ELSE u1 = u2 /\ q1.value = q2.value

IsFullProportion(amount) ==
    amount = <<>>
    \/ (amount[1].type = "Proportion" /\ amount[1].value = <<Whole(1)>>)

IsRemainder(amount) ==
    amount # <<>> /\ amount[1].type = "Proportion" /\ amount[1].value = <<>>

IsFullQuantity(amount, total) ==
    /\ amount # <<>>
    /\ amount[1].type = "Quantity"
    /\ total # <<>>
    /\ SameQuantity(compile_quantity(amount[1]), total[1])

SoleRef(i) == CHOOSE r \in SourceRefs(i) : TRUE

TotalQuantity(i) ==
    source_quantity(StmtAt(definition_site[i]).expr, definition_site[i])

\* The conditions of C1 on the i-th output, remainder references excluded.
WhollyUsedOnce(i) ==
    /\ NumOutputs(i) = 1
    /\ Cardinality(SourceRefs(i)) = 1
    /\ SoleRef(i).block = definition_site[i].block
    /\ \/ IsFullProportion(SoleRef(i).leaf.quantity_or_proportion)
       \/ IsFullQuantity(SoleRef(i).leaf.quantity_or_proportion,
                         TotalQuantity(i))

UsedOnceAsRemainder(i) ==
    /\ NumOutputs(i) = 1
    /\ Cardinality(SourceRefs(i)) = 1
    /\ SoleRef(i).block = definition_site[i].block
    /\ IsRemainder(SoleRef(i).leaf.quantity_or_proportion)

\* The inlining loop decides about the next output in this step.
Deciding == pc = "inline" /\ inline_index' = inline_index + 1

\* C1 as stated: a sub-recipe is inlined exactly when it has one output and
\* one reference, in its own block, for an unqualified / 1.0 / 100%
\* proportion or for a quantity equal to its total quantity.
C1_InlinedIffWhollyUsedOnce ==
    [][Deciding =>
        ((inline_index + 1 \in inlined') <=> WhollyUsedOnce(inline_index + 1))
      ]_vars

\* C1, amended: as C1, a 'remainder' proportion (value None) counting as the
\* whole amount too.
C1_InlinedIffWhollyUsedOnceOrRemainder ==
    [][Deciding =>
        ((inline_index + 1 \in inlined')
            <=> (\/ WhollyUsedOnce(inline_index + 1)
                 \/ UsedOnceAsRemainder(inline_index + 1)))
      ]_vars

\* Witness of C1: a sub-recipe was inlined for a sole reference giving its
\* total quantity in another unit, and compilation finished.
C1_Witness ==
    /\ pc = "done"
    /\ \E i \in inlined :
        /\ IsFullQuantity(SoleRef(i).leaf.quantity_or_proportion,
                          TotalQuantity(i))
        /\ compile_quantity(SoleRef(i).leaf.quantity_or_proportion[1]).unit
            # TotalQuantity(i)[1].unit

\* ------------------------------------------------------------------------
\* The effect of inlining, read off the sources and the tree lists.
\* ------------------------------------------------------------------------

\* The statement at a site registered output names.
DefinesOutputs(site) ==
    \E j \in 1..Len(definition_site) :
        /\ definition_site[j].block = site.block
        /\ definition_site[j].stmt = site.stmt

\* Position, in the tree list of its block, of the tree of the statement at
\* a site once the definitions of the outputs in gone have been removed.
RootPos(site, gone) ==
    site.stmt + 1
    - Cardinality({j \in gone :
                    /\ definition_site[j].block = site.block
                    /\ definition_site[j].stmt < site.stmt})

RootOf(blocks, site, gone) == blocks[site.block + 1][RootPos(site, gone)]

\* The compiled node for a bare name of the sources.
LeafNode(blocks, r, gone) ==
    LET root == RootOf(blocks, r, gone)
    IN  node_at(IF DefinesOutputs(r) THEN root.sub_tree ELSE root, r.path)

\* Every node of a tree, the targets of its references included.
RECURSIVE all_nodes(_)
all_nodes(node) ==
    {node} \cup
    CASE node.kind = "Step" ->
            UNION {all_nodes(node.inputs[k]) : k \in 1..Len(node.inputs)}
      [] node.kind = "Reference" -> all_nodes(node.sub_recipe)
      [] node.kind = "SubRecipe" -> all_nodes(node.sub_tree)
      [] OTHER -> {}

\* A tree with every occurrence of old replaced by new.
RECURSIVE replaced(_, _, _)
replaced(node, old, new) ==
    IF node = old THEN new
    ELSE CASE node.kind = "Step" ->
                [node EXCEPT !.inputs =
                    [k \in 1..Len(node.inputs) |->
                        replaced(node.inputs[k], old, new)]]
           [] node.kind = "Reference" ->
                [node EXCEPT !.sub_recipe = replaced(node.sub_recipe, old, new)]
           [] node.kind = "SubRecipe" ->
                [node EXCEPT !.sub_tree = replaced(node.sub_tree, old, new)]
           [] OTHER -> node

\* What the source asks to put in place of the reference to output i: the
\* definition itself after ':=', what it wraps otherwise.
InlineTree(i) ==
    LET definition ==
            RootOf(recipe_block_recipe_trees, definition_site[i], inlined)
    IN  IF StmtAt(definition_site[i]).named THEN definition
        ELSE definition.sub_tree

\* The tree lists expected after inlining output i.
ExpectedBlocks(i) ==
    LET site == definition_site[i]
        pos == RootPos(site, inlined)
        reference == LeafNode(recipe_block_recipe_trees, SoleRef(i), inlined)
    IN  [b \in 1..Len(recipe_block_recipe_trees) |->
            LET trees == recipe_block_recipe_trees[b]
                kept == IF b = site.block + 1
                        THEN SubSeq(trees, 1, pos - 1)
                                \o SubSeq(trees, pos + 1, Len(trees))
                        ELSE trees
            IN  [t \in 1..Len(kept) |->
                    replaced(kept[t], reference, InlineTree(i))]]

\* Every tree of some tree lists.
TreesOf(blocks) ==
    UNION {Range(blocks[b]) : b \in 1..Len(blocks)}

\* A Reference to output i (output names are unique).
RefersTo(node, i) ==
    /\ node.kind = "Reference"
    /\ Len(node.sub_recipe.output_names) = 1
    /\ SameName(node.sub_recipe.output_names[1], DefinedName(i))

\* The inlining loop inlines the next output in this step.
Inlining ==
    /\ Deciding
    /\ inline_index + 1 \in inlined'

\* C2: when a sub-recipe is inlined, its definition leaves the tree list of
\* its block; its reference is replaced everywhere by the inner sub_tree
\* (inferred name or '=') or by the SubRecipe itself (':='); no Reference to
\* it remains, also in the returned recipes; trees without the reference are
\* unchanged.
C2_InliningReplacesTheReference ==
    [][/\ Inlining =>
            LET i == inline_index + 1
                site == definition_site[i]
                r == SoleRef(i)
                reference ==
                    LeafNode(recipe_block_recipe_trees, r, inlined)
                definition ==
                    RootOf(recipe_block_recipe_trees, site, inlined)
            IN  /\ reference.kind = "Reference"
                /\ reference.sub_recipe = definition
                /\ recipe_block_recipe_trees' = ExpectedBlocks(i)
                /\ definition \notin Range(recipe_block_recipe_trees'[site.block + 1])
                /\ LeafNode(recipe_block_recipe_trees', r, inlined')
                        = InlineTree(i)
                /\ \A tree \in TreesOf(recipe_block_recipe_trees') :
                    \A node \in all_nodes(tree) :
                        /\ ~RefersTo(node, i)
                        /\ node # reference
                /\ \A tree \in TreesOf(recipe_block_recipe_trees) :
                        (tree # definition /\ reference \notin all_nodes(tree))
                            => tree \in Range(recipe_block_recipe_trees'[
                                    CHOOSE b \in 1..Len(recipe_block_recipe_trees) :
                                        tree \in Range(recipe_block_recipe_trees[b])])
       /\ pc' = "done" =>
            \A i \in inlined :
                \A b \in 1..Len(out') :
                    \A tree \in Range(out'[b].recipe_trees) :
                        \A node \in all_nodes(tree) : ~RefersTo(node, i)
      ]_vars

\* Witness of C2: compilation finished after inlining one sub-recipe defined
\* with ':=' and one defined with an inferred name or '='; the ':=' one is
\* found nested as a SubRecipe in the returned recipe.
C2_Witness ==
    /\ pc = "done"
    /\ \E i, j \in inlined :
        /\ StmtAt(definition_site[i]).named
        /\ ~StmtAt(definition_site[j]).named
        /\ \E tree \in Range(out[1].recipe_trees) :
            \E node \in all_nodes(tree) :
                /\ node # tree
                /\ node.kind = "SubRecipe"
                /\ node.output_names = <<DefinedName(i)>>

\* ------------------------------------------------------------------------
\* The exceptions compile() may raise.
\* ------------------------------------------------------------------------

StructuralInvariantErrors ==
    {"MultiOutputSubRecipeUsedAsNonRootNodeError", "OutputIndexError",
     "ZeroOutputSubRecipeError", "ReferenceToInvalidSubRecipeError"}

\* Every tree held by the compiler: block trees, table entries, usage lists.
HeldTrees ==
    TreesOf(recipe_block_recipe_trees)
    \cup {named_outputs[i].sub_recipe : i \in 1..Len(named_outputs)}
    \cup UNION {{named_outputs[i].references[j].ref :
                    j \in 1..Len(named_outputs[i].references)} :
                i \in 1..Len(named_outputs)}

\* C3: compile() never raises a structural invariant error of the data
\* model: not while building statement trees, not while substituting during
\* inlining (block trees and NamedOutput bookkeeping), not when creating the
\* Recipe objects; the only exceptions are NameRedefinedError and
\* ProportionGivenForIngredientError.
C3_NoStructuralInvariantError ==
    /\ pc = "error" =>
        /\ error[1].error \notin StructuralInvariantErrors
        /\ error[1].error \in {"NameRedefinedError",
                               "ProportionGivenForIngredientError"}
    /\ pc # "error" => \A tree \in HeldTrees : ~IsError(tree)

\* Witness of C3: two blocks compiled to two recipes, with a sub-recipe
\* inlined in the first block and the second block referring to a
\* sub-recipe of the first whose tree the inlining rewrote.
C3_Witness ==
    /\ pc = "done"
    /\ Len(out) = 2
    /\ \E i \in inlined :
        /\ definition_site[i].block = 0
        /\ \E tree \in Range(out[2].recipe_trees) :
            \E node \in all_nodes(tree) :
                /\ node.kind = "Reference"
                /\ node.sub_recipe \in Range(out[1].recipe_trees)
                /\ \E inner \in all_nodes(node.sub_recipe) :
                    /\ inner.kind = "Ingredient"
                    /\ SameName(inner.description, DefinedName(i))

\* ------------------------------------------------------------------------
\* The compilation of one statement, read off the sources.
\* ------------------------------------------------------------------------

\* This step compiles the next statement of the current block.
CompilingStmt ==
    /\ pc = "compile"
    /\ SumLen(ast_recipes') = SumLen(ast_recipes) + 1

\* The statement compiled by this step and its place in the sources.
NewStmt == Last(Last(ast_recipes'))

NewSite == [block |-> Len(ast_recipes) - 1, stmt |-> Len(Last(ast_recipes))]

\* The output registered before this step under the name (0: none).
RegisteredAs(name) ==
    LET defs == {i \in 1..Len(definition_site) :
                    SameName(DefinedName(i), name)}
    IN  IF defs = {} THEN 0 ELSE CHOOSE i \in defs : TRUE

\* The expression tree compiled by this step, without the SubRecipe wrapped
\* around it when the statement has output names.
NewBody ==
    LET root == Last(Last(recipe_block_recipe_trees'))
    IN  IF Len(definition_site') > Len(definition_site)
        THEN root.sub_tree ELSE root

\* The compiled references of this step to output i, in evaluation order.
RECURSIVE new_references(_, _, _)
new_references(leaves, body, i) ==
    IF leaves = <<>> THEN <<>>
    ELSE (IF RegisteredAs(compile_string(Head(leaves).leaf.name)) = i
          THEN <<[ref |-> node_at(body, Head(leaves).path),
                  ind |-> NewSite.block]>>
          ELSE <<>>)
         \o new_references(Tail(leaves), body, i)

\* C4: a bare name compiles to a Reference iff its normalised form equals
\* that of an output name registered by an earlier statement of any block,
\* and to an Ingredient otherwise; the statement's own output names count
\* only for later statements; every compiled Reference is appended, with the
\* current block index, to the usage list of the output it names.
C4_ReferenceIffNameRegisteredEarlier ==
    [][(CompilingStmt /\ pc' = "compile") =>
        \A leaves \in {ast_leaves(NewStmt.expr, <<>>)} :
        \A body \in {NewBody} :
            /\ \A l \in 1..Len(leaves) :
                \A name \in {compile_string(leaves[l].leaf.name)} :
                \A node \in {node_at(body, leaves[l].path)} :
                \A i \in {RegisteredAs(name)} :
                    IF i # 0
                    THEN /\ node.kind = "Reference"
                         /\ SameName(
                              node.sub_recipe.output_names[node.output_index + 1],
                              name)
                         /\ node.sub_recipe.output_names[node.output_index + 1]
                                = DefinedName(i)
                         /\ node.output_index = definition_site[i].output
                    ELSE /\ node.kind = "Ingredient"
                         /\ node.description = name
            /\ \A i \in 1..Len(definition_site) :
                /\ named_outputs'[i].references =
                    named_outputs[i].references
                        \o new_references(leaves, body, i)
                /\ SameName(named_outputs[i].name, DefinedName(i))
            /\ \A i \in (Len(definition_site) + 1)..Len(definition_site') :
                named_outputs'[i].references = <<>>
      ]_vars

\* Witness of C4: a second block refers as 'C' to the output 'c' of the
\* first block, and a statement '"A " = f(a)' was compiled with its inner
\* 'a' as an Ingredient.
C4_Witness ==
    /\ Len(recipe_block_recipe_trees) = 2
    /\ \E tree \in Range(recipe_block_recipe_trees[2]) :
        \E node \in all_nodes(tree) :
            /\ node.kind = "Reference"
            /\ node.sub_recipe \in Range(recipe_block_recipe_trees[1])
            /\ node.sub_recipe.output_names[node.output_index + 1]
                    = compile_string(name_c)
            /\ \E i \in 1..Len(named_outputs) :
                /\ named_outputs[i].name = compile_string(name_c)
                /\ [ref |-> node, ind |-> 1] \in Range(named_outputs[i].references)
    /\ \E tree \in TreesOf(recipe_block_recipe_trees) :
        /\ tree.kind = "SubRecipe"
        /\ tree.output_names = <<compile_string(name_A)>>
        /\ \E node \in all_nodes(tree) :
            /\ node.kind = "Ingredient"
            /\ node.description = compile_string(name_a)

\* ------------------------------------------------------------------------
\* The value returned by compile().
\* ------------------------------------------------------------------------

\* The statements of block b (0-based) whose trees are still roots: all but
\* the definitions that were inlined, in statement order.
RECURSIVE surviving_stmts(_, _)
surviving_stmts(b, t) ==
    IF t >= Len(ast_recipes[b + 1]) THEN <<>>
    ELSE (IF \E i \in inlined : /\ definition_site[i].block = b
                                /\ definition_site[i].stmt = t
          THEN <<>> ELSE <<[block |-> b, stmt |-> t]>>)
         \o surviving_stmts(b, t + 1)

\* The names a statement gives to its outputs, as the table has them.
OutputNamesAt(site) ==
    LET is == {i \in 1..Len(definition_site) :
                /\ definition_site[i].block = site.block
                /\ definition_site[i].stmt = site.stmt}
    IN  [k \in 1..Cardinality(is) |->
            DefinedName(CHOOSE i \in is : definition_site[i].output = k - 1)]

\* A root tree is the tree of the statement at a site.
IsTreeOf(tree, site) ==
    LET ast_stmt == StmtAt(site)
        body == IF DefinesOutputs(site) THEN tree.sub_tree ELSE tree
    IN  /\ DefinesOutputs(site) =>
            /\ tree.kind = "SubRecipe"
            /\ tree.output_names = OutputNamesAt(site)
            /\ tree.show_output_names = (ast_stmt.outputs # <<>>)
        /\ ast_stmt.expr.type = "Step" =>
            /\ body.kind = "Step"
            /\ body.description = compile_string(ast_stmt.expr.name)
            /\ Len(body.inputs) = Len(ast_stmt.expr.inputs)
        /\ ast_stmt.expr.type = "Reference" =>
            LET i == DefinitionOf(compile_string(ast_stmt.expr.name), site)
            IN  IF i = 0
                THEN /\ body.kind = "Ingredient"
                     /\ body.description = compile_string(ast_stmt.expr.name)
                ELSE IF i \in inlined
                THEN ~RefersTo(body, i)
                ELSE /\ body.kind = "Reference"
                     /\ SameName(
                          body.sub_recipe.output_names[body.output_index + 1],
                          DefinedName(i))

\* C5: compile() returns one Recipe per source, in input order, each with
\* the root trees of its block in statement order; the first has no follows
\* and every later one follows the Recipe of the preceding source.
C5_OneRecipePerSourceChained ==
    pc = "done" =>
        /\ Len(out) = Len(ast_recipes)
        /\ \A b \in 1..Len(out) :
            /\ out[b].kind = "Recipe"
            /\ out[b].recipe_trees = recipe_block_recipe_trees[b]
            /\ Len(out[b].recipe_trees) = Len(surviving_stmts(b - 1, 0))
            /\ \A k \in 1..Len(out[b].recipe_trees) :
                IsTreeOf(out[b].recipe_trees[k], surviving_stmts(b - 1, 0)[k])
            /\ out[b].follows = IF b = 1 THEN <<>> ELSE <<out[b - 1]>>

\* Witness of C5: two sources compiled to two recipes, a definition of the
\* first source having been inlined.
C5_Witness ==
    /\ pc = "done"
    /\ Len(out) = 2
    /\ out[2].follows = <<out[1]>>
    /\ out[2].recipe_trees # <<>>
    /\ Len(out[1].recipe_trees) < Len(ast_recipes[1])

\* ------------------------------------------------------------------------
\* Inlining into what was inlined, read off the sources.
\* ------------------------------------------------------------------------

\* The tree the sources describe for an expression written at a site, once
\* the outputs in inlined have been put in place of their references: a bare
\* name is an ingredient, the content of an inlined output, or a Reference
\* to the definition of an output that was not inlined.
RECURSIVE source_tree(_, _)
RECURSIVE source_definition(_)
source_tree(ast_expr, site) ==
    IF ast_expr.type = "Step"
    THEN [kind |-> "Step", description |-> compile_string(ast_expr.name),
          inputs |-> [k \in 1..Len(ast_expr.inputs) |->
                        source_tree(ast_expr.inputs[k], site)]]
    ELSE LET k == DefinitionOf(compile_string(ast_expr.name), site)
         IN  IF k = 0
             THEN [kind |-> "Ingredient",
                   description |-> compile_string(ast_expr.name),
                   quantity |->
                        IF ast_expr.quantity_or_proportion # <<>>
                        THEN <<compile_quantity(ast_expr.quantity_or_proportion[1])>>
                        ELSE <<>>]
             ELSE IF k \in inlined
             THEN IF StmtAt(definition_site[k]).named
                  THEN source_definition(definition_site[k])
                  ELSE source_tree(StmtAt(definition_site[k]).expr,
                                   definition_site[k])
             ELSE [kind |-> "Reference",
                   sub_recipe |-> source_definition(definition_site[k]),
                   output_index |-> definition_site[k].output,
                   amount |-> compile_quantity_or_proportion(
                                ast_expr.quantity_or_proportion)]

\* The SubRecipe the sources describe for the defining statement at a site.
source_definition(site) ==
    [kind |-> "SubRecipe",
     sub_tree |-> source_tree(StmtAt(site).expr, site),
     output_names |-> OutputNamesAt(site),
     show_output_names |-> (StmtAt(site).outputs # <<>>)]

\* What stands for output i where it has been inlined.
source_content(i) ==
    IF StmtAt(definition_site[i]).named
    THEN source_definition(definition_site[i])
    ELSE source_tree(StmtAt(definition_site[i]).expr, definition_site[i])

\* Output i was inlined into the definition of the later output j of the
\* same block.
InlinedInto(i, j) ==
    /\ i \in inlined
    /\ i < j
    /\ definition_site[i].block = definition_site[j].block
    /\ SoleRef(i).block = definition_site[j].block
    /\ SoleRef(i).stmt = definition_site[j].stmt

\* Output j is wholly used by its sole reference, given what was inlined
\* into its definition so far.
Eligible(j) == WhollyUsedOnce(j) \/ UsedOnceAsRemainder(j)

\* No Reference to output i in the trees, and no root defining it.
GoneFrom(blocks, i) ==
    \A tree \in TreesOf(blocks) :
        /\ \A node \in all_nodes(tree) : ~RefersTo(node, i)
        /\ ~(/\ tree.kind = "SubRecipe"
             /\ \E k \in 1..Len(tree.output_names) :
                    SameName(tree.output_names[k], DefinedName(i)))

\* C20: when output A has been inlined into the definition of a later
\* output B of the same block and B is eligible on its tree as it stands
\* after that (its total quantity inferred through A's ingredient), then B
\* is inlined too: its definition is found in its updated form, with A's
\* content nested at A's reference site, and removed; B's content stands at
\* B's reference site; no Reference to A or B and neither root definition
\* is left, in the tree lists and in the Recipes returned.
C20_InliningIsTransitive ==
    [][/\ Deciding =>
            \A j \in {inline_index + 1} : \A i \in inlined :
                (InlinedInto(i, j) /\ Eligible(j)) =>
                    \A definition \in {RootOf(recipe_block_recipe_trees,
                                              definition_site[j], inlined)} :
                        /\ definition = source_definition(definition_site[j])
                        /\ named_outputs[j].sub_recipe = definition
                        /\ node_at(definition.sub_tree, SoleRef(i).path)
                                = source_content(i)
                        /\ j \in inlined'
                        /\ pc' = "inline"
                        /\ definition \notin
                            Range(recipe_block_recipe_trees'[
                                    definition_site[j].block + 1])
                        /\ LeafNode(recipe_block_recipe_trees', SoleRef(j), inlined')
                                = (IF StmtAt(definition_site[j]).named
                                   THEN definition ELSE definition.sub_tree)
                        /\ GoneFrom(recipe_block_recipe_trees', i)
                        /\ GoneFrom(recipe_block_recipe_trees', j)
       /\ pc' = "done" =>
            \A j \in inlined : \A i \in inlined :
                InlinedInto(i, j) =>
                    \A blocks \in {[b \in 1..Len(out') |-> out'[b].recipe_trees]} :
                        /\ blocks = recipe_block_recipe_trees
                        /\ GoneFrom(blocks, i)
                        /\ GoneFrom(blocks, j)
      ]_vars

\* Witness of C20: compile() returned after inlining A into B and B into a
\* third statement, B being referenced by a quantity that equals the quantity
\* of A's ingredient; one tree is left, holding that ingredient.
C20_Witness ==
    /\ pc = "done"
    /\ \E j \in inlined : \E i \in inlined :
        /\ InlinedInto(i, j)
        /\ IsFullQuantity(SoleRef(j).leaf.quantity_or_proportion, TotalQuantity(j))
        /\ Len(out) = 1
        /\ Len(out[1].recipe_trees) = 1
        /\ \E node \in all_nodes(out[1].recipe_trees[1]) :
            /\ node.kind = "Ingredient"
            /\ node.quantity # <<>>

\* ------------------------------------------------------------------------
\* Inlining for a reference to the remainder.
\* ------------------------------------------------------------------------

\* The root trees the sources describe once the outputs in inlined have been
\* put in place of their references, whatever amount those references gave.
SourceBlocks ==
    [b \in 1..Len(ast_recipes) |->
        LET sites == surviving_stmts(b - 1, 0)
        IN  [k \in 1..Len(sites) |->
                IF DefinesOutputs(sites[k])
                THEN source_definition(sites[k])
                ELSE source_tree(StmtAt(sites[k]).expr, sites[k])]]

\* C22: a single-output sub-recipe whose only reference is in its own block
\* and is to the 'remainder' (a Proportion with value None) is inlined, and
\* inlined as for an unqualified reference: its definition leaves the tree
\* list, its content stands where the reference was, and the Recipes
\* returned hold the trees the sources describe with the content in place of
\* the reference, nothing of the reference's amount being kept.
C22_RemainderReferenceIsInlined ==
    [][/\ (Deciding /\ UsedOnceAsRemainder(inline_index + 1)) =>
            \A i \in {inline_index + 1} :
                /\ i \in inlined'
                /\ pc' = "inline"
                /\ recipe_block_recipe_trees' = ExpectedBlocks(i)
                /\ LeafNode(recipe_block_recipe_trees', SoleRef(i), inlined')
                        = InlineTree(i)
                /\ InlineTree(i) = source_content(i)
                /\ GoneFrom(recipe_block_recipe_trees', i)
       /\ (pc' = "done" /\ \E i \in inlined : UsedOnceAsRemainder(i)) =>
            [b \in 1..Len(out') |-> out'[b].recipe_trees] = SourceBlocks
      ]_vars

\* Witness of C22: compile() returned after inlining a sub-recipe for its
\* sole reference, 'remainder of a'; the ingredient is the one tree left.
C22_Witness ==
    /\ pc = "done"
    /\ \E i \in inlined :
        /\ UsedOnceAsRemainder(i)
        /\ IsRemainder(SoleRef(i).leaf.quantity_or_proportion)
        /\ Len(out) = 1
        /\ Len(out[1].recipe_trees) = 1
        /\ out[1].recipe_trees[1].kind = "Ingredient"

\* ------------------------------------------------------------------------
\* Inferred output names.
\* ------------------------------------------------------------------------

\* The bare name a statement's expression comes down to through steps of a
\* single input (<<>>: some step on the way has not exactly one input).
RECURSIVE ChainLeaf(_)
ChainLeaf(ast_expr) ==
    IF ast_expr.type = "Reference" THEN <<ast_expr>>
    ELSE IF Len(ast_expr.inputs) = 1 THEN ChainLeaf(ast_expr.inputs[1])
    ELSE <<>>

\* C30: an inferred output name never collides with a registered name.  A
\* statement without output names whose single bare name is registered
\* compiles that name to a Reference and registers nothing; one whose single
\* bare name is not registered registers just that name, which no earlier
\* statement has taken.  So a NameRedefinedError is only ever raised for a
\* statement with written output names, at one of them, and the assertion
\* of _compile_stmt never fails.
C30_InferredNameNeverCollides ==
    [][CompilingStmt =>
        /\ error' # <<>> =>
            /\ error'[1].error # "AssertionError"
            /\ error'[1].error = "NameRedefinedError" =>
                /\ NewStmt.outputs # <<>>
                /\ \E k \in 1..Len(NewStmt.outputs) :
                    /\ error'[1].node = <<NewStmt.outputs[k]>>
                    /\ error'[1].path = <<k - 1>>
        /\ (NewStmt.outputs = <<>> /\ pc' = "compile") =>
            \A chain \in {ChainLeaf(NewStmt.expr)} :
            \A root \in {Last(Last(recipe_block_recipe_trees'))} :
                IF chain # <<>>
                    /\ RegisteredAs(compile_string(chain[1].name)) = 0
                THEN /\ Len(named_outputs') = Len(named_outputs) + 1
                     /\ Last(named_outputs').name = compile_string(chain[1].name)
                     /\ \A i \in 1..Len(named_outputs) :
                            ~SameName(named_outputs[i].name,
                                      Last(named_outputs').name)
                     /\ root.kind = "SubRecipe"
                     /\ root.output_names = <<compile_string(chain[1].name)>>
                ELSE /\ Len(named_outputs') = Len(named_outputs)
                     /\ root.kind # "SubRecipe"
                     /\ chain # <<>> =>
                            node_at(root, ast_leaves(NewStmt.expr, <<>>)[1].path).kind
                                = "Reference"
      ]_vars

\* Witness of C30: the second statement of a block, without output names,
\* has as its single bare name the name the first statement registered by
\* inference; it compiled to a Reference and registered nothing.
C30_Witness ==
    /\ pc = "compile"
    /\ Len(ast_recipes) = 1
    /\ Len(ast_recipes[1]) = 2
    /\ ast_recipes[1][1].outputs = <<>>
    /\ ast_recipes[1][2].outputs = <<>>
    /\ Len(named_outputs) = 1
    /\ ChainLeaf(ast_recipes[1][2].expr) # <<>>
    /\ SameName(named_outputs[1].name,
                compile_string(ChainLeaf(ast_recipes[1][2].expr)[1].name))
    /\ recipe_block_recipe_trees[1][1].kind = "SubRecipe"
    /\ ~recipe_block_recipe_trees[1][1].show_output_names
    /\ recipe_block_recipe_trees[1][2].kind = "Reference"

\* ------------------------------------------------------------------------
\* The number of root trees of the Recipes returned.
\* ------------------------------------------------------------------------

\* The outputs among those of the set that were defined in the b-th block.
DefinedIn(b, outputs) ==
    {i \in outputs : definition_site[i].block = b - 1}

\* The b-th tree list holds one tree per statement of the b-th block but for
\* the definitions of that block that were inlined.
TreesAccountedFor(blocks, gone) ==
    /\ Len(blocks) = Len(ast_recipes)
    /\ \A b \in 1..Len(blocks) :
        Len(blocks[b]) = Len(ast_recipes[b]) - Cardinality(DefinedIn(b, gone))

\* C29: while compile() inlines, every definition to remove is found in the
\* tree list of its defining block and removed from it, once; so on every
\* successful compile() the number of root trees of the i-th Recipe is the
\* number of statements of the i-th block minus the number of sub-recipes
\* defined there that were inlined, and every Recipe returned has at least
\* one root tree.
C29_RootTreesAreStatementsNotInlined ==
    [][/\ Deciding =>
            \A i \in {inline_index + 1} :
                /\ i \notin inlined
                /\ (pc' = "error" => i \in inlined')
                /\ IF i \in inlined'
                   THEN /\ named_outputs[i].sub_recipe \in
                            Range(recipe_block_recipe_trees[
                                    definition_site[i].block + 1])
                        /\ GoneFrom(recipe_block_recipe_trees', i)
                   ELSE recipe_block_recipe_trees' = recipe_block_recipe_trees
                /\ TreesAccountedFor(recipe_block_recipe_trees', inlined')
       /\ pc' = "done" =>
            /\ TreesAccountedFor([b \in 1..Len(out') |-> out'[b].recipe_trees],
                                 inlined')
            /\ \A b \in 1..Len(out') : Len(out'[b].recipe_trees) >= 1
      ]_vars

\* Witness of C29: compile() returned two Recipes; a definition of the first
\* block was inlined, so the first Recipe has one tree fewer than its block
\* has statements.
C29_Witness ==
    /\ pc = "done"
    /\ Len(out) = 2
    /\ DefinedIn(1, inlined) # {}
    /\ Len(ast_recipes[1]) = 2
    /\ Len(out[1].recipe_trees) = 1
    /\ Len(out[2].recipe_trees) = 1

\* ------------------------------------------------------------------------
\* The errors of one statement, read off the sources.
\* ------------------------------------------------------------------------

IsProportion(amount) == amount # <<>> /\ amount[1].type = "Proportion"

\* The bare names of the statement compiled by this step that match no
\* registered output and are given with a Proportion (positions in leaves).
ProportionedIngredients(leaves) ==
    {l \in 1..Len(leaves) :
        /\ RegisteredAs(compile_string(leaves[l].leaf.name)) = 0
        /\ IsProportion(leaves[l].leaf.quantity_or_proportion)}

\* The outputs of the statement compiled by this step whose names are
\* already taken: by an output registered before, or by an earlier output of
\* the statement itself (positions in the output list).
CollidingOutputs(ast_stmt) ==
    {k \in 1..Len(ast_stmt.outputs) :
        \/ RegisteredAs(compile_string(ast_stmt.outputs[k])) # 0
        \/ \E j \in 1..(k - 1) :
            SameName(compile_string(ast_stmt.outputs[j]),
                     compile_string(ast_stmt.outputs[k]))}

Min(S) == CHOOSE x \in S : \A y \in S : x <= y

\* C6: compile() raises NameRedefinedError whenever an output name of a
\* statement normalises to a name registered before (explicit or inferred,
\* same or earlier block) or earlier in the statement's own output list, and
\* the error is located at the colliding output of that statement; without
\* such a collision no NameRedefinedError is raised.
C6_NameRedefinedAtCollidingOutput ==
    [][(CompilingStmt
            /\ ProportionedIngredients(ast_leaves(NewStmt.expr, <<>>)) = {}) =>
        \A colliding \in {CollidingOutputs(NewStmt)} :
        IF colliding # {}
        THEN LET k == Min(colliding)
             IN  /\ pc' = "error"
                 /\ error' = <<[error |-> "NameRedefinedError",
                                node |-> <<NewStmt.outputs[k]>>,
                                path |-> <<k - 1>>,
                                block |-> NewSite.block,
                                stmt |-> NewSite.stmt]>>
        ELSE /\ pc' = "compile"
             /\ error' = <<>>
      ]_vars

\* Witness of C6: the second source redefines, in the second name of its
\* output list, the first name of that list ('c, c = b').
C6_Witness ==
    /\ pc = "error"
    /\ error[1].error = "NameRedefinedError"
    /\ error[1].block = 1
    /\ error[1].path = <<1>>
    /\ error[1].node = <<name_c>>
    /\ RegisteredAs(compile_string(name_c)) # 0

\* C7: a bare name matching no registered output and given with a
\* Proportion makes compile() raise ProportionGivenForIngredientError located
\* at that reference; given with a Quantity or with no amount it becomes an
\* Ingredient with that quantity (or none) and raises nothing.
C7_ProportionGivenForIngredient ==
    [][CompilingStmt =>
        \A leaves \in {ast_leaves(NewStmt.expr, <<>>)} :
        \A bad \in {ProportionedIngredients(leaves)} :
            IF bad # {}
            THEN /\ pc' = "error"
                 /\ error' = <<[error |-> "ProportionGivenForIngredientError",
                                node |-> <<leaves[Min(bad)].leaf>>,
                                path |-> leaves[Min(bad)].path,
                                block |-> NewSite.block,
                                stmt |-> NewSite.stmt]>>
                 /\ recipe_block_recipe_trees' = recipe_block_recipe_trees
            ELSE /\ pc' = "error" =>
                        error'[1].error # "ProportionGivenForIngredientError"
                 /\ pc' = "compile" =>
                        \A l \in 1..Len(leaves) :
                            LET amount == leaves[l].leaf.quantity_or_proportion
                                node == node_at(NewBody, leaves[l].path)
                            IN  RegisteredAs(compile_string(leaves[l].leaf.name)) = 0
                                => /\ node.kind = "Ingredient"
                                   /\ Len(node.quantity) = Len(amount)
                                   /\ amount # <<>> =>
                                        /\ node.quantity[1].type = "Quantity"
                                        /\ node.quantity[1].value = amount[1].value
                                        /\ Len(node.quantity[1].unit)
                                                = Len(amount[1].unit)
                                        /\ amount[1].unit # <<>> =>
                                            node.quantity[1].unit[1] =
                                                amount[1].unit[1].substrings[1].string
      ]_vars

\* Witness of C7: after a statement that made an Ingredient with a Quantity,
\* a statement gave a Proportion to a name that matches no output, as the
\* second input of a step.
C7_Witness ==
    /\ pc = "error"
    /\ error[1].error = "ProportionGivenForIngredientError"
    /\ error[1].node[1].quantity_or_proportion[1].type = "Proportion"
    /\ error[1].path = <<1>>
    /\ RegisteredAs(compile_string(error[1].node[1].name)) = 0
    /\ \E tree \in TreesOf(recipe_block_recipe_trees) :
        \E node \in all_nodes(tree) :
            /\ node.kind = "Ingredient"
            /\ node.quantity # <<>>

\* ------------------------------------------------------------------------
\* Direct use of the data model: building recipe trees with the
\* constructors, substitute() and scale().
\* ------------------------------------------------------------------------

MaxNodes == 3

svs_x == ScaledValueString(<<Txt(<<"x">>)>>)
svs_y == ScaledValueString(<<Txt(<<"y">>)>>)
svs_f == ScaledValueString(<<Txt(<<"f">>)>>)

\* Proportion(1.0), the default amount of a Reference.
all_of_it == Proportion(<<Whole(1)>>, <<>>, <<>>, "")

\* compile() is not running.
CompilerUnused ==
    /\ pc = "idle"
    /\ ast_recipes = <<>>
    /\ recipe_block_recipe_trees = <<>>
    /\ named_outputs = <<>>
    /\ inline_index = 0
    /\ out = <<>>
    /\ error = <<>>
    /\ definition_site = <<>>
    /\ inlined = {}

Called(name, args) == [name |-> name, args |-> args, output_index |-> 0]

\* A call returns a value or raises; the caller keeps the nodes it gets.
Return(call, value) ==
    /\ op' = call
    /\ returned' = <<value>>
    /\ nodes' = IF ~IsError(value) /\ Cardinality(nodes) < MaxNodes
                THEN nodes \cup {value} ELSE nodes
    /\ UNCHANGED <<compile_vars, trees_so_far, last_recipe, given_cells>>

TreeInit == CompilerUnused /\ ModelUnused

MkIngredient ==
    Return(Called("Ingredient", <<>>),
           Ingredient(svs_x, <<Quantity(Whole(1), <<>>, "", "")>>))

MkStep ==
    \E inputs \in {<<a>> : a \in nodes} \cup {<<a, b>> : a, b \in nodes} :
        Return(Called("Step", inputs), Step(svs_f, inputs))

MkSubRecipe ==
    \E sub_tree \in nodes :
        \E output_names \in {<<>>, <<svs_x>>, <<svs_x, svs_y>>} :
            Return(Called("SubRecipe", <<sub_tree>>),
                   SubRecipe(sub_tree, output_names, TRUE))

MkReference ==
    \E sub_recipe \in {node \in nodes : node.kind = "SubRecipe"} :
        \E output_index \in (0 - 1)..2 :
            Return([name |-> "Reference", args |-> <<sub_recipe>>,
                    output_index |-> output_index],
                   Reference(sub_recipe, output_index, all_of_it))

\* A node that occurs in no tree the caller builds.
unrelated == Ingredient(svs_y, <<>>)

DoSubstitute ==
    \E self \in nodes, new \in nodes :
        \E old \in (all_nodes(self) \cup {unrelated}) \ {new} :
            Return(Called("substitute", <<self, old, new>>),
                   substitute(self, old, new))

DoScale ==
    \E self \in nodes :
        Return(Called("scale", <<self>>), scale(self, Whole(2)))

TreeNext ==
    MkIngredient \/ MkStep \/ MkSubRecipe \/ MkReference \/ DoSubstitute
    \/ DoScale

SpecTree == TreeInit /\ [][TreeNext]_vars

\* C9: constructing a Reference raises OutputIndexError iff its
\* output_index is not in 0 .. len(output_names) - 1 of the sub-recipe.
C9_OutputIndexErrorIffOutOfRange ==
    [][op'.name = "Reference" =>
        ((returned'[1] = Raise("OutputIndexError"))
            <=> op'.output_index \notin
                    0..(Len(op'.args[1].output_names) - 1))
      ]_vars

IsMultiOutput(node) ==
    node.kind = "SubRecipe" /\ Len(node.output_names) > 1

\* A multi-output SubRecipe is an input of a Step or the sub_tree of a
\* SubRecipe somewhere in the tree.
NestsMultiOutput(tree) ==
    \E node \in all_nodes(tree) :
        \/ /\ node.kind = "Step"
           /\ \E k \in 1..Len(node.inputs) : IsMultiOutput(node.inputs[k])
        \/ /\ node.kind = "SubRecipe"
           /\ IsMultiOutput(node.sub_tree)

MultiOutputError == Raise("MultiOutputSubRecipeUsedAsNonRootNodeError")

\* C10: no tree built through the constructors, substitute() or scale() has
\* a multi-output SubRecipe as an input of a Step or as the sub_tree of a
\* SubRecipe; a construction that would nest one, also inside substitute(),
\* raises MultiOutputSubRecipeUsedAsNonRootNodeError.  (The caller holds no
\* tree at first, so it is enough that no step adds such a tree.)
C10_MultiOutputSubRecipeOnlyAtRoot ==
    [][/\ ~IsError(returned'[1]) => ~NestsMultiOutput(returned'[1])
       /\ \A node \in nodes' \ nodes : ~NestsMultiOutput(node)
       /\ (op'.name = "Step"
            /\ \E k \in 1..Len(op'.args) : IsMultiOutput(op'.args[k]))
          => returned'[1] = MultiOutputError
       /\ (op'.name = "SubRecipe" /\ IsMultiOutput(op'.args[1]))
          => returned'[1] = MultiOutputError
       /\ (op'.name = "substitute"
            /\ NestsMultiOutput(replaced(op'.args[1], op'.args[2], op'.args[3])))
          => returned'[1] = MultiOutputError
      ]_vars

\* Witness of C10: a multi-output SubRecipe was built as a root, and a
\* substitute() that would put it under a Step raised the error.
C10_Witness ==
    /\ op.name = "substitute"
    /\ op.args[1].kind = "Step"
    /\ IsMultiOutput(op.args[3])
    /\ op.args[3] \in nodes
    /\ returned = <<MultiOutputError>>

\* The tree passes every check the constructors make: no multi-output
\* SubRecipe below the root, and every Reference targets a SubRecipe that has
\* the output it names.
PassesConstructors(tree) ==
    /\ ~NestsMultiOutput(tree)
    /\ \A node \in all_nodes(tree) :
          /\ node.kind = "Reference" =>
                /\ node.sub_recipe.kind = "SubRecipe"
                /\ node.output_index < Len(node.sub_recipe.output_names)
          /\ node.kind = "SubRecipe" => Len(node.output_names) > 0

\* C11 as stated: t.substitute(old, new) is t with every node equal to old
\* replaced by new, matched top-down and also inside the targets of
\* References; it is new when t = old and t when no node of t equals old.
C11_SubstituteReplacesEveryOccurrence ==
    [][op'.name = "substitute" =>
        \A t \in {op'.args[1]} : \A old \in {op'.args[2]} :
        \A new \in {op'.args[3]} :
            /\ returned'[1] = replaced(t, old, new)
            /\ t = old => returned'[1] = new
            /\ old \notin all_nodes(t) => returned'[1] = t
      ]_vars

\* C11 (amended): t.substitute(old, new) is t with every node equal to old
\* replaced by new, matched top-down and also inside the targets of
\* References, whenever that tree passes the constructors' checks, and raises
\* otherwise; it is new when t = old and t when no node of t equals old.
C11_SubstituteReplacesOrRaises ==
    [][op'.name = "substitute" =>
        \A t \in {op'.args[1]} : \A old \in {op'.args[2]} :
        \A new \in {op'.args[3]} :
        \A expected \in {replaced(t, old, new)} :
            /\ PassesConstructors(expected) => returned'[1] = expected
            /\ ~PassesConstructors(expected) => IsError(returned'[1])
            /\ t = old => returned'[1] = new
            /\ old \notin all_nodes(t) => returned'[1] = t
      ]_vars

\* Witness of C11: an occurrence of old inside the target of a Reference was
\* replaced, and the Reference returned differs from the one given.
C11_Witness ==
    /\ op.name = "substitute"
    /\ op.args[1].kind = "Reference"
    /\ op.args[2] \in all_nodes(op.args[1].sub_recipe.sub_tree)
    /\ ~IsError(returned[1])
    /\ returned[1].kind = "Reference"
    /\ returned[1] # op.args[1]

\* ------------------------------------------------------------------------
\* Rendering: the trees a caller builds are converted to tables.
\* ------------------------------------------------------------------------

\* Step(description, ()): the constructor asks for no inputs at all.
MkEmptyStep == Return(Called("Step", <<>>), Step(svs_f, <<>>))

\* SubRecipe(sub_tree, output_names, show_output_names=False)
MkHiddenSubRecipe ==
    \E sub_tree \in nodes :
        \E output_names \in {<<svs_x>>, <<svs_x, svs_y>>} :
            Return(Called("SubRecipe", <<sub_tree>>),
                   SubRecipe(sub_tree, output_names, FALSE))

\* recipe_tree_to_table(tree) on the tree a constructor just returned.
ToTable ==
    /\ op.name \in {"Ingredient", "Step", "SubRecipe", "Reference"}
    /\ ~IsError(returned[1])
    /\ op' = Called("recipe_tree_to_table", returned)
    /\ returned' = <<recipe_tree_to_table(returned[1], TRUE)>>
    /\ UNCHANGED <<compile_vars, nodes, trees_so_far, last_recipe, given_cells>>

TableNext ==
    MkIngredient \/ MkStep \/ MkEmptyStep \/ MkSubRecipe \/ MkHiddenSubRecipe
    \/ MkReference \/ ToTable

SpecTable == TreeInit /\ [][TableNext]_vars

\* The nodes of a tree that get a cell: a Reference is shown as a leaf.
RECURSIVE rendered_nodes(_)
rendered_nodes(node) ==
    {node} \cup
    CASE node.kind = "Step" ->
            UNION {rendered_nodes(node.inputs[k]) : k \in 1..Len(node.inputs)}
      [] node.kind = "SubRecipe" -> rendered_nodes(node.sub_tree)
      [] OTHER -> {}

\* The Cell that covers a position of a table.
covering(table, row, column) ==
    LET entry == table.cells[row + 1][column + 1]
    IN  IF entry.type = "Cell" THEN entry ELSE entry.cell

\* Where that Cell is anchored.
anchor(table, row, column) ==
    LET entry == table.cells[row + 1][column + 1]
    IN  IF entry.type = "Cell" THEN <<row, column>>
        ELSE <<row - entry.drow, column - entry.dcolumn>>

\* Two horizontally or vertically adjacent positions that belong to different
\* cells carry the same style on the edge they share.
BordersMatch(table) ==
    \A row \in 0..(Len(table.cells) - 1) :
        \A column \in 0..(Len(table.cells[1]) - 1) :
            /\ (/\ column + 1 < Len(table.cells[1])
                /\ anchor(table, row, column) # anchor(table, row, column + 1))
               => covering(table, row, column).border_right
                    = covering(table, row, column + 1).border_left
            /\ (/\ row + 1 < Len(table.cells)
                /\ anchor(table, row, column) # anchor(table, row + 1, column))
               => covering(table, row, column).border_bottom
                    = covering(table, row + 1, column).border_top

\* C13: in every Table produced by recipe_tree_to_table, two cells that abut
\* report the same border style on their shared edge: border_right of the
\* left cell equals border_left of the right cell and border_bottom of the
\* upper cell equals border_top of the lower cell.
C13_AbuttingBordersMatch ==
    [][(op'.name = "recipe_tree_to_table" /\ ~IsError(returned'[1]))
            => BordersMatch(returned'[1])
      ]_vars

\* The footprint of the Cell anchored at key: the positions it spans.
Footprint(key, cell) ==
    (key[1]..(key[1] + cell.rows - 1)) \X (key[2]..(key[2] + cell.columns - 1))

\* The positions of a rows x columns grid.
Positions(cells) ==
    IF cells = <<>> THEN {}
    ELSE (0..(Len(cells) - 1)) \X (0..(Len(cells[1]) - 1))

\* The places of the Cells in a list of lists.
CellKeys(cells) ==
    {key \in Positions(cells) : cells[key[1] + 1][key[2] + 1].type = "Cell"}

\* Every position of the grid lies in the footprint of exactly one Cell: no
\* gaps and no overlaps.
FootprintsCoverOnce(cells) ==
    \A position \in Positions(cells) :
        Cardinality({key \in CellKeys(cells) :
            position \in Footprint(key, cells[key[1] + 1][key[2] + 1])}) = 1

\* The grid is rectangular, covered exactly once, and every other position
\* of a footprint holds an ExtendedCell that points back to its Cell.
CoveredExactlyOnce(cells) ==
    /\ \A r \in 1..Len(cells) : Len(cells[r]) = Len(cells[1])
    /\ FootprintsCoverOnce(cells)
    /\ \A position \in Positions(cells) :
          /\ \A key \in CellKeys(cells) :
                (/\ position \in Footprint(key, cells[key[1] + 1][key[2] + 1])
                 /\ position # key)
                => cells[position[1] + 1][position[2] + 1]
                    = ExtendedCell(cells[key[1] + 1][key[2] + 1],
                                   position[1] - key[1], position[2] - key[2])
    /\ \A key \in CellKeys(cells) :
          Footprint(key, cells[key[1] + 1][key[2] + 1]) \subseteq Positions(cells)

\* C14: for every recipe tree the data-model constructors accept,
\* recipe_tree_to_table returns a structurally consistent Table and raises
\* no error.
C14_TreeToTableNeverRaises ==
    [][op'.name = "recipe_tree_to_table" =>
            /\ ~IsError(returned'[1])
            /\ CoveredExactlyOnce(returned'[1].cells)
      ]_vars

\* The number of rows of the first n tables of a list.
RECURSIVE RowsOf(_, _)
RowsOf(tables, n) ==
    IF n = 0 THEN 0 ELSE RowsOf(tables, n - 1) + Len(tables[n].cells)

\* What a border of an input's cell is once the Step's table is wrapped as a
\* root: emphasised on an outer edge of the table, as it was anywhere else.
WrappedBorder(border, on_outer_edge) ==
    IF on_outer_edge THEN "sub_recipe" ELSE border

\* The table of a root Step given the tables of its inputs: one row band per
\* input in input order, narrower inputs reaching the common width through
\* the right-most cell of each row, and the Step as one more column.
StepLayout(step, input_tables, table) ==
    \A width \in {Max({Len(input_tables[k].cells[1]) :
                            k \in 1..Len(input_tables)})} :
    \A height \in {RowsOf(input_tables, Len(input_tables))} :
        /\ Len(table.cells) = height
        /\ Len(table.cells[1]) = 1 + width
        /\ CoveredExactlyOnce(table.cells)
        /\ \A k \in 1..Len(input_tables) :
            \A band \in {RowsOf(input_tables, k - 1)} :
            \A key \in CellKeys(input_tables[k].cells) :
            \A cell \in {input_tables[k].cells[key[1] + 1][key[2] + 1]} :
                table.cells[band + key[1] + 1][key[2] + 1] =
                    Cell(cell.value,
                         cell.rows,
                         IF key[2] + cell.columns = Len(input_tables[k].cells[1])
                         THEN width - key[2] ELSE cell.columns,
                         WrappedBorder(cell.border_left, key[2] = 0),
                         cell.border_right,
                         WrappedBorder(cell.border_top, band + key[1] = 0),
                         WrappedBorder(cell.border_bottom,
                                       band + key[1] + cell.rows = height))
        /\ table.cells[1][width + 1] =
                Cell(step, height, 1,
                     "normal", "sub_recipe", "sub_recipe", "sub_recipe")

\* All four outer edges of the table are emphasised.
OuterEdgesEmphasised(table) ==
    /\ \A row \in 0..(Len(table.cells) - 1) :
          /\ covering(table, row, 0).border_left = "sub_recipe"
          /\ covering(table, row, Len(table.cells[1]) - 1).border_right
                = "sub_recipe"
    /\ \A column \in 0..(Len(table.cells[1]) - 1) :
          /\ covering(table, 0, column).border_top = "sub_recipe"
          /\ covering(table, Len(table.cells) - 1, column).border_bottom
                = "sub_recipe"

\* Every border that is not on an outer edge of the table is normal.
InteriorBordersNormal(table) ==
    \A key \in CellKeys(table.cells) :
    \A cell \in {table.cells[key[1] + 1][key[2] + 1]} :
        /\ key[2] > 0 => cell.border_left = "normal"
        /\ key[2] + cell.columns < Len(table.cells[1])
            => cell.border_right = "normal"
        /\ key[1] > 0 => cell.border_top = "normal"
        /\ key[1] + cell.rows < Len(table.cells)
            => cell.border_bottom = "normal"

\* The layout C16 describes, for a root Step and the table returned for it.
LaidOutAsStep(step, table) ==
    /\ ~IsError(table)
    /\ StepLayout(step,
                  [k \in 1..Len(step.inputs) |->
                        recipe_tree_to_table(step.inputs[k], FALSE)],
                  table)
    /\ OuterEdgesEmphasised(table)
    /\ (\A node \in rendered_nodes(step) : node.kind # "SubRecipe")
        => InteriorBordersNormal(table)

EmphasisedCell(inner, key, cell) ==
    [cell EXCEPT
        !.border_left = IF key[2] = 0 THEN "sub_recipe" ELSE @,
        !.border_right =
            IF key[2] + cell.columns = Len(inner.cells[1])
            THEN "sub_recipe" ELSE @,
        !.border_top = IF key[1] = 0 THEN "sub_recipe" ELSE @,
        !.border_bottom =
            IF key[1] + cell.rows = Len(inner.cells) THEN "sub_recipe" ELSE @]

\* The table of a SubRecipe with several outputs, given the table of its
\* sub tree: that table with its outer edges emphasised, and one more column
\* that is a single Cell holding the SubRecipe.
MultiOutputLayout(sub_recipe, inner, table) ==
    \A rows \in {Len(inner.cells)} : \A columns \in {Len(inner.cells[1])} :
        /\ Len(table.cells) = rows
        /\ \A r \in 1..rows : Len(table.cells[r]) = columns + 1
        /\ \A r \in 1..rows : \A c \in 1..columns :
            \A entry \in {inner.cells[r][c]} :
                IF entry.type = "Cell"
                THEN table.cells[r][c]
                        = EmphasisedCell(inner, <<r - 1, c - 1>>, entry)
                ELSE table.cells[r][c]
                        = ExtendedCell(
                            EmphasisedCell(inner,
                                           <<r - 1 - entry.drow,
                                             c - 1 - entry.dcolumn>>,
                                           entry.cell),
                            entry.drow, entry.dcolumn)
        /\ \A cell \in {table.cells[1][columns + 1]} :
            /\ cell.type = "Cell"
            /\ cell.value = sub_recipe
            /\ cell.rows = rows
            /\ cell.columns = 1
            /\ cell.border_top = "none"
            /\ cell.border_right = "none"
            /\ cell.border_bottom = "none"
            /\ \A r \in 2..rows :
                table.cells[r][columns + 1] = ExtendedCell(cell, r - 1, 0)

MaxCells == 4

cell_value == Ingredient(svs_x, <<>>)

\* What a caller puts into a position: Cells of one position, of two
\* columns, of two rows and of no rows, ExtendedCells for the second
\* column or row of a Cell, and an ExtendedCell for the second column of a
\* Cell with the offset of a second row.
GridEntries ==
    {plain_cell(cell_value, 1, 1),
     plain_cell(cell_value, 1, 2),
     plain_cell(cell_value, 2, 1),
     plain_cell(cell_value, 0, 1),
     ExtendedCell(plain_cell(cell_value, 1, 2), 0, 1),
     ExtendedCell(plain_cell(cell_value, 2, 1), 1, 0),
     ExtendedCell(plain_cell(cell_value, 1, 2), 1, 0)}

GridInit == CompilerUnused /\ ModelUnused

\* The caller starts the next row.
NewRow ==
    /\ IF given_cells = <<>> THEN TRUE ELSE Last(given_cells) # <<>>
    /\ SumLen(given_cells) < MaxCells
    /\ given_cells' = Append(given_cells, <<>>)
    /\ op' = Called("row", <<>>)
    /\ returned' = <<>>
    /\ UNCHANGED <<compile_vars, nodes, trees_so_far, last_recipe>>

\* The caller appends an entry to the row it is filling.
AddCell ==
    /\ given_cells # <<>>
    /\ SumLen(given_cells) < MaxCells
    /\ \E entry \in GridEntries :
          given_cells' = [given_cells EXCEPT ![Len(given_cells)] = Append(@, entry)]
    /\ op' = Called("cell", <<>>)
    /\ returned' = <<>>
    /\ UNCHANGED <<compile_vars, nodes, trees_so_far, last_recipe>>

\* Table(given_cells)
ConstructTable ==
    /\ op.name \in {"none", "row", "cell"}
    /\ op' = Called("Table", <<>>)
    /\ returned' = <<Table(given_cells)>>
    /\ UNCHANGED <<compile_vars, nodes, trees_so_far, last_recipe, given_cells>>

\* Table.from_dict(table.to_dict()) on the Table just constructed.
RoundTrip ==
    /\ op.name = "Table"
    /\ ~IsError(returned[1])
    /\ op' = Called("from_dict", <<>>)
    /\ returned' = <<from_dict(to_dict(returned[1]))>>
    /\ UNCHANGED <<compile_vars, nodes, trees_so_far, last_recipe, given_cells>>

GridNext == NewRow \/ AddCell \/ ConstructTable \/ RoundTrip

SpecGrid == GridInit /\ [][GridNext]_vars

\* C15: for any Table the constructor accepts, the footprints of its Cells
\* cover every position of the rows x columns grid exactly once, and
\* Table.from_dict(t.to_dict()) equals t.
C15_CellsCoverGridAndRoundTrip ==
    [][/\ (op'.name = "Table" /\ ~IsError(returned'[1]))
            => FootprintsCoverOnce(returned'[1].cells)
       /\ op'.name = "from_dict" => returned'[1] = returned[1]
      ]_vars

\* The entry of a list of lists at a position (row, column), from 0.
EntryAt(cells, p) == cells[p[1] + 1][p[2] + 1]

\* The positions of a list of lists all of whose rows have the same length.
GridPositions(cells) == (0..(Len(cells) - 1)) \X (0..(Len(cells[1]) - 1))

\* The positions the Cell at p extends over: the rows x columns positions
\* that start at p, without p itself.
SpanOf(cells, p) ==
    {<<p[1] + drow, p[2] + dcolumn>> :
        drow \in 0..(EntryAt(cells, p).rows - 1),
        dcolumn \in 0..(EntryAt(cells, p).columns - 1)} \ {p}

\* The positions that hold a Cell.
CellPositions(cells) ==
    {p \in GridPositions(cells) : EntryAt(cells, p).type = "Cell"}

\* The Cells that extend over the position p.
CoveringCells(cells, p) ==
    {q \in CellPositions(cells) : p \in SpanOf(cells, q)}

\* The structural defects of a list of lists, by the exception that reports
\* them.
GridDefects(cells) ==
    IF Len(cells) = 0 THEN {"EmptyTableError"}
    ELSE IF Len(cells[1]) = 0 THEN {"EmptyTableError"}
    ELSE IF \E r \in 1..Len(cells) : Len(cells[r]) # Len(cells[1])
    THEN {"MissingCellError"}
    ELSE LET positions == GridPositions(cells)
             extended == positions \ CellPositions(cells)
         IN  (IF \E q \in CellPositions(cells) :
                    ~(SpanOf(cells, q) \subseteq positions)
              THEN {"MissingCellError"} ELSE {})
             \cup (IF \E p \in extended : CoveringCells(cells, p) = {}
                   THEN {"CellExpectedError"} ELSE {})
             \cup (IF \E p \in CellPositions(cells) :
                        CoveringCells(cells, p) # {}
                   THEN {"ExtendedCellExpectedError"} ELSE {})
             \cup (IF \E p \in extended : \E q \in CoveringCells(cells, p) :
                        EntryAt(cells, p).cell # EntryAt(cells, q)
                   THEN {"ExtendedCellReferenceError"} ELSE {})
             \cup (IF \E p \in extended : \E q \in CoveringCells(cells, p) :
                        \/ EntryAt(cells, p).drow # p[1] - q[1]
                        \/ EntryAt(cells, p).dcolumn # p[2] - q[2]
                   THEN {"ExtendedCellCoordinateError"} ELSE {})

MaxTrees == 4

MaxChain == 3

\* SVS([2, "x"]): a name with a scalable number in it.
svs_2x == ScaledValueString(<<Num(Whole(2)), Txt(<<"x">>)>>)

two_g == Quantity(Whole(2), <<unit_g>>, "", "")

\* 2x: the root definition of a sub-recipe, 2g of x.
sr_x == SubRecipe(Ingredient(svs_x, <<two_g>>), <<svs_2x>>, FALSE)

\* f(2g 2x): a step using it.
use_x == Step(svs_f, <<Reference(sr_x, 0, two_g)>>)

\* y = 2x: a sub-recipe whose sub_tree is a reference to sr_x.
sr_y == SubRecipe(Reference(sr_x, 0, all_of_it), <<svs_y>>, TRUE)

\* 1/2 * y: a reference to sr_y as a tree of its own.
ref_y == Reference(sr_y, 0, Proportion(<<Frac(1, 2)>>, <<>>, <<>>, ""))

\* A step with sr_x nested as its input.
nest_x == Step(svs_f, <<sr_x>>)

RecipeTrees == {sr_x, use_x, sr_y, ref_y, nest_x}

RECURSIVE ChainLen(_)
ChainLen(follows) ==
    IF follows = <<>> THEN 0 ELSE 1 + ChainLen(follows[1].follows)

RECURSIVE ChainTrees(_)
ChainTrees(follows) ==
    IF follows = <<>> THEN 0
    ELSE Len(follows[1].recipe_trees) + ChainTrees(follows[1].follows)

RecipeInit == CompilerUnused /\ ModelUnused

\* The caller collects another tree for its next Recipe.
AddTree ==
    /\ ChainLen(last_recipe) < MaxChain
    /\ Len(trees_so_far) + ChainTrees(last_recipe) < MaxTrees
    /\ \E tree \in RecipeTrees : trees_so_far' = Append(trees_so_far, tree)
    /\ op' = Called("append", <<>>)
    /\ returned' = <<>>
    /\ UNCHANGED <<compile_vars, nodes, last_recipe, given_cells>>

\* Recipe(tuple(trees_so_far), last_recipe)
ConstructRecipe ==
    /\ trees_so_far # <<>>
    /\ LET recipe == Recipe(trees_so_far, last_recipe)
       IN  /\ returned' = <<recipe>>
           /\ last_recipe' = IF IsError(recipe) THEN last_recipe ELSE <<recipe>>
    /\ op' = Called("Recipe", <<>>)
    /\ trees_so_far' = <<>>
    /\ UNCHANGED <<compile_vars, nodes, given_cells>>

\* Factors handed to scale(): an integer, a Fraction and the neutral 1.
Factors == {Whole(1), Whole(2), Frac(1, 2)}

\* recipe.scale(factor) on the Recipe that was just constructed.
ScaleRecipe ==
    /\ op.name = "Recipe"
    /\ ~IsError(returned[1])
    /\ \E factor \in Factors :
          /\ op' = Called("scale", <<factor>>)
          /\ returned' = <<recipe_scale(last_recipe[1], factor)>>
    /\ UNCHANGED <<compile_vars, nodes, trees_so_far, last_recipe, given_cells>>

\* scaled.scale(factor) on the Recipe that scale() just returned.
ScaleScaled ==
    /\ op.name = "scale"
    /\ ~IsError(returned[1])
    /\ \E factor \in Factors :
          /\ op' = Called("scale.scale", <<op.args[1], factor>>)
          /\ returned' = <<recipe_scale(returned[1], factor)>>
    /\ UNCHANGED <<compile_vars, nodes, trees_so_far, last_recipe, given_cells>>

RecipeNext == AddTree \/ ConstructRecipe \/ ScaleRecipe \/ ScaleScaled

SpecRecipe == RecipeInit /\ [][RecipeNext]_vars

\* The Reference nodes in a tree: under Step inputs and SubRecipe sub_trees,
\* not under the target of a Reference.
RECURSIVE references_in(_)
references_in(node) ==
    (IF node.kind = "Reference" THEN {node} ELSE {})
    \cup CASE node.kind = "Step" ->
                UNION {references_in(node.inputs[k]) :
                            k \in 1..Len(node.inputs)}
           [] node.kind = "SubRecipe" -> references_in(node.sub_tree)
           [] OTHER -> {}

\* The root trees of the recipes of a follows chain.
RECURSIVE ChainRoots(_)
ChainRoots(follows) ==
    IF follows = <<>> THEN {}
    ELSE Range(follows[1].recipe_trees) \cup ChainRoots(follows[1].follows)

\* Some Reference in the trees points to a SubRecipe that is neither the
\* root of an earlier tree nor a root tree of the follows chain.
HasInvalidReference(trees, follows) ==
    \E k \in 1..Len(trees) :
        \E reference \in references_in(trees[k]) :
            reference.sub_recipe \notin
                {trees[j] : j \in 1..(k - 1)} \cup ChainRoots(follows)

\* C8: constructing a Recipe raises ReferenceToInvalidSubRecipeError iff
\* some Reference in one of its trees points to a SubRecipe that is neither
\* the root of an earlier tree of the Recipe nor a root tree of a Recipe in
\* the transitive follows chain.
C8_InvalidReferenceIffRaised ==
    [][op'.name = "Recipe" =>
        ((returned'[1] = Raise("ReferenceToInvalidSubRecipeError"))
            <=> HasInvalidReference(trees_so_far, last_recipe))
      ]_vars

\* A ScaledValueString with every numeric part multiplied by factor.
scaled_string(string, factor) ==
    [k \in 1..Len(string) |->
        IF string[k].t = "num"
        THEN [string[k] EXCEPT !.v = NumMul(@, factor)] ELSE string[k]]

\* A Quantity with its value multiplied by factor; a Proportion as it is.
scaled_amount(amount, factor) ==
    IF amount.type = "Quantity"
    THEN [amount EXCEPT !.value = NumMul(@, factor)] ELSE amount

\* A tree with every Quantity value and every numeric part of a description
\* or output name multiplied by factor, Reference targets included.
RECURSIVE scaled_tree(_, _)
scaled_tree(node, factor) ==
    CASE node.kind = "Ingredient" ->
            [node EXCEPT !.description = scaled_string(@, factor),
                         !.quantity = [k \in 1..Len(@) |->
                                            scaled_amount(@[k], factor)]]
      [] node.kind = "Step" ->
            [node EXCEPT !.description = scaled_string(@, factor),
                         !.inputs = [k \in 1..Len(@) |->
                                            scaled_tree(@[k], factor)]]
      [] node.kind = "Reference" ->
            [node EXCEPT !.sub_recipe = scaled_tree(@, factor),
                         !.amount = scaled_amount(@, factor)]
      [] node.kind = "SubRecipe" ->
            [node EXCEPT !.sub_tree = scaled_tree(@, factor),
                         !.output_names = [k \in 1..Len(@) |->
                                            scaled_string(@[k], factor)]]

\* A Recipe with all its trees scaled, those of its follows chain included.
RECURSIVE scaled_recipe(_, _)
scaled_recipe(recipe, factor) ==
    [recipe EXCEPT !.recipe_trees = [k \in 1..Len(@) |->
                                            scaled_tree(@[k], factor)],
                   !.follows = IF @ = <<>> THEN <<>>
                               ELSE <<scaled_recipe(@[1], factor)>>]

\* The Recipe passes the reference check of its constructor, and so does
\* every Recipe of its follows chain.
RECURSIVE PassesReferenceCheck(_)
PassesReferenceCheck(recipe) ==
    /\ ~IsError(recipe)
    /\ \A k \in 1..Len(recipe.recipe_trees) :
          \A reference \in visited_references(recipe.recipe_trees[k]) :
              reference.sub_recipe \in
                  {recipe.recipe_trees[j] : j \in 1..(k - 1)}
                  \cup ChainRoots(recipe.follows)
    /\ recipe.follows # <<>> => PassesReferenceCheck(recipe.follows[1])

NumAdd(a, b) == Frac(a.num * b.den + b.num * a.den, a.den * b.den)

NumLess(a, b) == a.num * b.den < b.num * a.den

\* int(x): truncation towards zero.
NumInt(x) == IF x.num >= 0 THEN x.num \div x.den ELSE 0 - ((0 - x.num) \div x.den)

\* math.isclose(used_proportion, 1.0, rel_tol=0.02):
\* abs(u - 1) <= 0.02 * max(abs(u), 1).  The values of the model are far from
\* the boundary, where the rounding of the float 0.02 would decide.
isclose_to_whole(used_proportion) ==
    LET n == used_proportion.num
        d == used_proportion.den
    IN  50 * Abs(n - d) <= (IF Abs(n) >= d THEN Abs(n) ELSE d)

\* The description of a Lint, kept as the values interpolated into the
\* message of its kind: the output name, the referenced value and unit, and
\* the percentage (<<>> and 0 where the message has no such value).
Description(output_name, value, unit, perc) ==
    [output_name |-> output_name, value |-> value, unit |-> unit, perc |-> perc]

Lint(lint_kind, description) == [kind |-> lint_kind, description |-> description]

\* The order of the characters of the model (their code points).
char_code(c) ==
    CASE c = " " -> 32
      [] c = "A" -> 65
      [] c = "B" -> 66
      [] c = "C" -> 67
      [] c = "G" -> 71
      [] c = "K" -> 75
      [] c = "X" -> 88
      [] c = "a" -> 97
      [] c = "b" -> 98
      [] c = "c" -> 99
      [] c = "f" -> 102
      [] c = "g" -> 103
      [] c = "k" -> 107
      [] c = "l" -> 108
      [] c = "o" -> 111
      [] c = "x" -> 120
      [] c = "y" -> 121
      [] OTHER -> 0

\* s < t for Python strings.
RECURSIVE str_less(_, _)
str_less(s, t) ==
    IF t = <<>> THEN FALSE
    ELSE IF s = <<>> THEN TRUE
    ELSE IF Head(s) # Head(t) THEN char_code(Head(s)) < char_code(Head(t))
    ELSE str_less(Tail(s), Tail(t))

\* visit_node of check_for_unused_ingredients: the implicit ingredient
\* sub recipes it adds.
RECURSIVE implicit_ingredient_sub_recipes(_)
implicit_ingredient_sub_recipes(node) ==
    IF node.kind = "Reference" THEN {}
    ELSE (IF /\ node.kind = "SubRecipe"
             /\ Len(node.output_names) = 1
             /\ node.show_output_names = FALSE
          THEN {node} ELSE {})
         \cup UNION {implicit_ingredient_sub_recipes(child_node) :
                        child_node \in Range(iter_children(node))}

\* visit_node of check_for_unused_ingredients: the referenced sub recipes
\* it adds.
RECURSIVE referenced_sub_recipes(_)
referenced_sub_recipes(node) ==
    IF node.kind = "Reference" THEN {node.sub_recipe}
    ELSE UNION {referenced_sub_recipes(child_node) :
                    child_node \in Range(iter_children(node))}

\* The recipe trees of the first of the given recipes only.
recipe_block_trees_of_first_only(recipe_blocks) ==
    IF recipe_blocks = <<>> THEN <<>> ELSE recipe_blocks[1].recipe_trees

\* All the recipe trees of the given recipes, in the order they are visited.
recipe_block_trees(recipe_blocks) ==
    Flatten([i \in 1..Len(recipe_blocks) |-> recipe_blocks[i].recipe_trees])

\* sorted(unused_ingredients, key=lambda sr: str(sr.output_names[0])).
RECURSIVE sorted_by_output_name(_)
sorted_by_output_name(unused_ingredients) ==
    IF unused_ingredients = {} THEN <<>>
    ELSE LET first == CHOOSE sr \in unused_ingredients :
                        \A other \in unused_ingredients :
                            ~str_less(render_text(other.output_names[1]),
                                      render_text(sr.output_names[1]))
         IN  <<first>> \o sorted_by_output_name(unused_ingredients \ {first})

check_for_unused_ingredients(recipe_blocks) ==
    LET trees == recipe_block_trees(recipe_blocks)
        implicit == UNION {implicit_ingredient_sub_recipes(trees[i]) :
                            i \in 1..Len(trees)}
        referenced == UNION {referenced_sub_recipes(trees[i]) :
                                i \in 1..Len(trees)}
        unused == sorted_by_output_name(implicit \ referenced)
    IN  [i \in 1..Len(unused) |->
            Lint("unused_ingredient",
                 Description(unused[i].output_names[1], <<>>, <<>>, 0))]

\* visit_node of check_sub_recipe_references_sum_to_whole: the References
\* it appends, in order.
RECURSIVE references_visited(_)
references_visited(node) ==
    IF node.kind = "Reference" THEN <<node>>
    ELSE LET children == iter_children(node)
         IN  Flatten([i \in 1..Len(children) |-> references_visited(children[i])])

\* The keys of a dict filled by setdefault, in insertion order.
RECURSIVE keys_in_order(_, _)
keys_in_order(keys, seen) ==
    IF keys = <<>> THEN <<>>
    ELSE IF Head(keys) \in seen THEN keys_in_order(Tail(keys), seen)
    ELSE <<Head(keys)>> \o keys_in_order(Tail(keys), seen \cup {Head(keys)})

\* sub_recipe_references as the sequence of its
\* (sub_recipe, output_index, references) entries in iteration order.
sub_recipe_references(recipe_blocks) ==
    LET trees == recipe_block_trees(recipe_blocks)
        visited == Flatten([i \in 1..Len(trees) |-> references_visited(trees[i])])
        sub_recipes ==
            keys_in_order([i \in 1..Len(visited) |-> visited[i].sub_recipe], {})
        of_sub_recipe(sub_recipe) ==
            SelectSeq(visited, LAMBDA r : r.sub_recipe = sub_recipe)
        output_indices(sub_recipe) ==
            keys_in_order([i \in 1..Len(of_sub_recipe(sub_recipe)) |->
                            of_sub_recipe(sub_recipe)[i].output_index], {})
    IN  Flatten([i \in 1..Len(sub_recipes) |->
            [j \in 1..Len(output_indices(sub_recipes[i])) |->
                [sub_recipe |-> sub_recipes[i],
                 output_index |-> output_indices(sub_recipes[i])[j],
                 references |->
                    SelectSeq(of_sub_recipe(sub_recipes[i]),
                              LAMBDA r : r.output_index =
                                    output_indices(sub_recipes[i])[j])]]])

\* "If this sub recipe contains a single ingredient, infer the quantity".
RECURSIVE single_ingredient(_)
single_ingredient(node) ==
    IF node.kind = "Step" /\ Len(node.inputs) = 1
    THEN single_ingredient(node.inputs[1])
    ELSE node

total_quantity_of(sub_recipe) ==
    LET node == single_ingredient(sub_recipe.sub_tree)
    IN  IF node.kind = "Ingredient" /\ Len(sub_recipe.output_names) = 1
        THEN node.quantity
        ELSE <<>>

\* The conversion factor of the try block: <<factor>>, or <<>> for KeyError.
reference_conversion(amount, total_quantity) ==
    IF amount.unit # <<>> /\ total_quantity.unit # <<>>
    THEN convert_between(str_lower(amount.unit[1]),
                         str_lower(total_quantity.unit[1]))
    ELSE IF amount.unit = <<>> /\ total_quantity.unit = <<>>
    THEN <<Whole(1)>>
    ELSE <<>>

\* The state of the loop over the references of one output: the lints
\* yielded so far and the exception that ended the generator, if any.
LintState(problem_encountered, used_proportion, lints, raised) ==
    [problem_encountered |-> problem_encountered,
     used_proportion |-> used_proportion, lints |-> lints, raised |-> raised]

\* The body of "for reference in references".
count_reference(st, reference, total_quantity, output_name) ==
    IF reference.amount.type = "Quantity"
    THEN IF total_quantity = <<>>
         THEN [st EXCEPT
                !.problem_encountered = TRUE,
                !.lints = Append(@, Lint("sub_recipe_quantity_unknown",
                                         Description(output_name,
                                                     <<reference.amount.value>>,
                                                     reference.amount.unit, 0)))]
         ELSE LET conversion ==
                    reference_conversion(reference.amount, total_quantity[1])
              IN  IF conversion = <<>>
                  THEN [st EXCEPT
                        !.problem_encountered = TRUE,
                        !.lints = Append(@,
                            Lint("sub_recipe_reference_incompatible_units",
                                 Description(output_name, <<>>,
                                             reference.amount.unit, 0)))]
                  ELSE IF total_quantity[1].value.num = 0
                  THEN [st EXCEPT !.raised = <<"ZeroDivisionError">>]
                  ELSE [st EXCEPT !.used_proportion =
                            NumAdd(@, NumDiv(NumMul(reference.amount.value,
                                                    conversion[1]),
                                             total_quantity[1].value))]
    ELSE IF reference.amount.value = <<>>
    THEN [st EXCEPT
            !.problem_encountered =
                @ \/ ~NumLess(st.used_proportion, Whole(1)),
            !.lints =
                IF ~NumLess(st.used_proportion, Whole(1))
                THEN Append(@, Lint("sub_recipe_reference_non_positive_remainder",
                                    Description(output_name, <<>>, <<>>, 0)))
                ELSE @,
            !.used_proportion =
                IF NumLess(@, Whole(1)) THEN Whole(1) ELSE @]
    ELSE [st EXCEPT !.used_proportion = NumAdd(@, reference.amount.value[1])]

\* "for reference in references", ended by an exception.
RECURSIVE count_references(_, _, _, _)
count_references(st, references, total_quantity, output_name) ==
    IF references = <<>> \/ st.raised # <<>> THEN st
    ELSE count_references(
            count_reference(st, Head(references), total_quantity, output_name),
            Tail(references), total_quantity, output_name)

\* "if not problem_encountered": the lint about the sum, if any.
sum_lints(used_proportion, output_name) ==
    LET perc == NumInt(NumMul(used_proportion, Whole(100)))
    IN  IF isclose_to_whole(used_proportion) THEN <<>>
        ELSE IF NumLess(used_proportion, Whole(1))
        THEN <<Lint("sub_recipe_not_used_up",
                    Description(output_name, <<>>, <<>>, 100 - perc))>>
        ELSE <<Lint("sub_recipe_used_too_much",
                    Description(output_name, <<>>, <<>>, perc))>>

\* One iteration of "for output_index, references in ...".
check_output(entry) ==
    LET output_name == entry.sub_recipe.output_names[entry.output_index + 1]
        st == count_references(LintState(FALSE, Whole(0), <<>>, <<>>),
                               entry.references,
                               total_quantity_of(entry.sub_recipe),
                               output_name)
    IN  IF st.raised # <<>> \/ st.problem_encountered THEN st
        ELSE [st EXCEPT !.lints = @ \o sum_lints(st.used_proportion, output_name)]

\* The loops over sub_recipe_references, ended by an exception.
RECURSIVE check_outputs(_, _)
check_outputs(entries, lints) ==
    IF entries = <<>> THEN [lints |-> lints, raised |-> <<>>]
    ELSE LET st == check_output(Head(entries))
         IN  IF st.raised # <<>>
             THEN [lints |-> lints \o st.lints, raised |-> st.raised]
             ELSE check_outputs(Tail(entries), lints \o st.lints)

check_sub_recipe_references_sum_to_whole(recipe_blocks) ==
    check_outputs(sub_recipe_references(recipe_blocks), <<>>)

\* check: the lints yielded when the generator is run to its end, and the
\* exception that ended it, if any.
check(recipe_blocks) ==
    check_outputs(sub_recipe_references(recipe_blocks),
                  check_for_unused_ingredients(recipe_blocks))

\* ------------------------------------------------------------------------
\* Linting what compile() returns.  The statements of these sources, in the
\* recipe syntax:
\*   a            1kg a         0kg a         1000G a       1 a
\*   1 foo a      remainder of a              f(1/2 * a)    b = f(1/2 * a)
\* The first of them in a program defines the ingredient a, the later ones
\* refer to it.
\* ------------------------------------------------------------------------

zero_kg == ast_Quantity(Whole(0), <<ast_String(<<ast_Substring(unit_kg)>>)>>, "", "")

one_unitless == ast_Quantity(Whole(1), <<>>, "", "")

one_foo == ast_Quantity(Whole(1), <<ast_String(<<ast_Substring(unit_foo)>>)>>, " ", "")

LintStmts ==
    {ast_Stmt(ref(name_a, amount), <<>>, FALSE) :
        amount \in {<<>>, <<one_kg>>, <<zero_kg>>, <<thousand_g>>,
                    <<one_unitless>>, <<one_foo>>, <<remainder>>}}
    \cup {ast_Stmt(ast_Step(name_f, <<ref(name_a, <<half>>)>>), <<>>, FALSE),
          ast_Stmt(ast_Step(name_f, <<ref(name_a, <<half>>)>>), <<name_b>>, FALSE)}

CompileLintStmt == CompileStmtFrom(LintStmts)

\* The orders in which n Recipes can be handed to check.
Orders(n) == {order \in [1..n -> 1..n] : \A i, j \in 1..n : order[i] = order[j] => i = j}

InOrder(recipes, order) == [i \in 1..Len(recipes) |-> recipes[order[i]]]

\* list(lint.check(recipes)) on the Recipes compile() returned, in some order.
LintCheck ==
    /\ pc = "done"
    /\ op.name = "none"
    /\ \E order \in Orders(Len(out)) :
        /\ op' = Called("check", <<order>>)
        /\ returned' = <<check(InOrder(out, order))>>
    /\ UNCHANGED <<compile_vars, nodes, trees_so_far, last_recipe, given_cells>>

\* The same call once more.
CheckAgain ==
    /\ pc = "done"
    /\ op.name = "check"
    /\ op' = Called("check.again", op.args)
    /\ returned' = <<check(InOrder(out, op.args[1]))>>
    /\ UNCHANGED <<compile_vars, nodes, trees_so_far, last_recipe, given_cells>>

LintNext ==
    \/ NextBlock
    \/ CompileLintStmt
    \/ EndOfSources
    \/ InlineStep
    \/ CreateRecipes
    \/ LintCheck
    \/ CheckAgain

SpecLint == Init /\ [][LintNext]_vars

\* C17: lint.check on the Recipes compile() returned runs to completion and
\* never raises, whatever the quantities, units and proportions.
C17_CheckNeverRaises ==
    (op.name = "check" /\ op.args[1] = [i \in 1..Len(out) |-> i])
        => returned[1].raised = <<>>

\* The number of times x occurs in seq.
Count(seq, x) == Cardinality({i \in 1..Len(seq) : seq[i] = x})

SameMultiset(s, t) ==
    \A x \in Range(s) \cup Range(t) : Count(s, x) = Count(t, x)

\* Some Reference visited by the lint is to the remainder of a sub recipe.
HasRemainderReference(recipes) ==
    \E reference \in UNION {Range(references_visited(tree)) :
                                tree \in Range(recipe_block_trees(recipes))} :
        /\ reference.amount.type = "Proportion"
        /\ reference.amount.value = <<>>

RECURSIVE references_in_order(_)
references_in_order(node) ==
    CASE node.kind = "Reference" -> <<node>>
      [] node.kind = "Step" ->
            Flatten([k \in 1..Len(node.inputs) |->
                        references_in_order(node.inputs[k])])
      [] node.kind = "SubRecipe" -> references_in_order(node.sub_tree)
      [] OTHER -> <<>>

\* Every Reference of the Recipes, in the order of the Recipes and trees.
AllReferences(recipes) ==
    Flatten([i \in 1..Len(recipe_block_trees(recipes)) |->
                references_in_order(recipe_block_trees(recipes)[i])])

\* The proportion used by the references to one output, accumulated in
\* order from used, and the kinds of the problems met on the way.
RECURSIVE Accumulated(_, _, _, _)
Accumulated(references, total_quantity, used, problems) ==
    IF references = <<>> THEN [used |-> used, problems |-> problems]
    ELSE LET amount == Head(references).amount
             rest == Tail(references)
         IN  IF amount.type = "Quantity"
             THEN IF total_quantity = <<>>
                  THEN Accumulated(rest, total_quantity, used,
                            Append(problems, "sub_recipe_quantity_unknown"))
                  ELSE IF reference_conversion(amount, total_quantity[1]) = <<>>
                  THEN Accumulated(rest, total_quantity, used,
                            Append(problems,
                                   "sub_recipe_reference_incompatible_units"))
                  ELSE IF total_quantity[1].value.num = 0
                  THEN Accumulated(rest, total_quantity, used, problems)
                  ELSE Accumulated(rest, total_quantity,
                            NumAdd(used,
                                   NumDiv(NumMul(amount.value,
                                                 reference_conversion(
                                                    amount, total_quantity[1])[1]),
                                          total_quantity[1].value)),
                            problems)
             ELSE IF amount.value = <<>>
             THEN IF NumLess(used, Whole(1))
                  THEN Accumulated(rest, total_quantity, Whole(1), problems)
                  ELSE Accumulated(rest, total_quantity, used,
                            Append(problems,
                                   "sub_recipe_reference_non_positive_remainder"))
             ELSE Accumulated(rest, total_quantity,
                              NumAdd(used, amount.value[1]), problems)

\* The kinds of the lints expected for the references to one output: the
\* problems met, or else what the sum says.
ExpectedKinds(references) ==
    \* every reference is to the same output of the same sub recipe
    LET sum == Accumulated(references,
                           total_quantity_of(Head(references).sub_recipe),
                           Whole(0), <<>>)
    IN  IF sum.problems # <<>> THEN sum.problems
        ELSE IF isclose_to_whole(sum.used) THEN <<>>
        ELSE IF NumLess(sum.used, Whole(1)) THEN <<"sub_recipe_not_used_up">>
        ELSE <<"sub_recipe_used_too_much">>

\* The name of the output a Reference is to.
ReferencedName(reference) ==
    reference.sub_recipe.output_names[reference.output_index + 1]

\* The kinds of the lints about the use of the output of a name, in order.
KindsAbout(lints, output_name) ==
    LET about == SelectSeq(lints,
                    LAMBDA l : /\ l.kind # "unused_ingredient"
                               /\ l.description.output_name = output_name)
    IN  [i \in 1..Len(about) |-> about[i].kind]

\* C26: for each output of a sub recipe that has a Reference, its references
\* are accumulated in traversal order: a remainder reference is reported as
\* non-positive exactly when the sum is >= 1 already, and lifts the sum to
\* at least 1; a quantity counts as its share of the total quantity, and is
\* a problem when the total is unknown or the units are incompatible.  When
\* no problem was reported exactly one of three happens: nothing if the sum
\* is within 2% of 1, sub_recipe_not_used_up below, sub_recipe_used_too_much
\* above; after a problem neither is reported.  Outputs without a Reference
\* get no lint.
C26_LintSumsEveryReference ==
    op.name = "check" =>
        \A recipes \in {InOrder(out, op.args[1])} :
        \A references \in {AllReferences(recipes)} :
            /\ returned[1].raised = <<>>
            /\ \A r \in Range(references) :
                KindsAbout(returned[1].lints, ReferencedName(r))
                    = ExpectedKinds(SelectSeq(references,
                            LAMBDA other :
                                /\ other.sub_recipe = r.sub_recipe
                                /\ other.output_index = r.output_index))
            /\ \A i \in 1..Len(returned[1].lints) :
                returned[1].lints[i].kind # "unused_ingredient" =>
                    \E r \in Range(references) :
                        ReferencedName(r)
                            = returned[1].lints[i].description.output_name

\* ------------------------------------------------------------------------
\* Direct use of ScaledValueString: a caller constructs a string from a
\* sequence of parts and goes on applying the operations of the class to
\* what it got.
\* ------------------------------------------------------------------------

MaxParts == 3

MaxChars == 4

MaxValue == 2

RawParts ==
    {Txt(<<>>), Txt(<<" ">>), Txt(<<" ", "X", " ">>), Num(Whole(0)), Num(Whole(2))}

\* The sequences of at most n parts a caller may hand over.
RawStrings(n) == UNION {[1..k -> RawParts] : k \in 0..n}

\* The right operands of '+': a text, a number or the empty string.
Operands == RawStrings(1)

Multipliers == {Whole(0), Whole(2), Frac(1, 2)}

\* The number of characters of the text parts.
RECURSIVE text_length(_)
text_length(string) ==
    IF string = <<>> THEN 0
    ELSE (IF IsStr(Head(string)) THEN Len(Head(string).s) ELSE 0)
         + text_length(Tail(string))

\* The strings the model goes on with: few parts, short texts, small numbers.
Small(string) ==
    /\ Len(string) <= MaxParts
    /\ text_length(string) <= MaxChars
    /\ \A i \in 1..Len(string) :
        IF IsStr(string[i]) THEN TRUE
        ELSE string[i].v.num <= MaxValue /\ string[i].v.den <= MaxValue

StringInit == CompilerUnused /\ ModelUnused

\* A method of the string at hand, or the constructor, returns a string.
Returns(call, string) ==
    /\ Small(string)
    /\ op' = call
    /\ returned' = <<string>>
    /\ UNCHANGED <<compile_vars, nodes, trees_so_far, last_recipe, given_cells>>

Construct ==
    /\ returned = <<>>
    /\ \E string \in RawStrings(MaxParts) :
        Returns(Called("ScaledValueString", <<string>>), ScaledValueString(string))

Add ==
    /\ returned # <<>>
    /\ \E other \in Operands :
        Returns(Called("__add__", <<returned[1], other>>),
                svs_add(returned[1], ScaledValueString(other)))

Scale ==
    /\ returned # <<>>
    /\ \E multiplier \in Multipliers :
        Returns(Called("scale", <<returned[1], multiplier>>), svs_scale(returned[1], multiplier))

Lower == returned # <<>> /\ Returns(Called("lower", <<returned[1]>>), svs_lower(returned[1]))

Upper == returned # <<>> /\ Returns(Called("upper", <<returned[1]>>), svs_upper(returned[1]))

Lstrip == returned # <<>> /\ Returns(Called("lstrip", <<returned[1]>>), svs_lstrip(returned[1]))

Rstrip == returned # <<>> /\ Returns(Called("rstrip", <<returned[1]>>), svs_rstrip(returned[1]))

Strip == returned # <<>> /\ Returns(Called("strip", <<returned[1]>>), svs_strip(returned[1]))

StringNext ==
    Construct \/ Add \/ Scale \/ Lower \/ Upper \/ Lstrip \/ Rstrip \/ Strip

SpecString == StringInit /\ [][StringNext]_vars

\* No empty text part and no two consecutive text parts.
Normalised(string) ==
    /\ \A i \in 1..Len(string) : string[i] # Txt(<<>>)
    /\ \A i \in 1..(Len(string) - 1) : ~(IsStr(string[i]) /\ IsStr(string[i + 1]))

\* The numeric parts, in order.
numeric_parts(string) == SelectSeq(string, LAMBDA part : ~IsStr(part))

\* C19: whatever sequence of ScaledValueString operations is applied, the
\* resulting parts hold no empty text part and no two consecutive text
\* parts, and the numeric parts are those of the operands, in order, none
\* merged or dropped (each multiplied by the multiplier after scale).
C19_PartsStayNormalised ==
    [][/\ op'.name # "none" => Normalised(returned'[1])
       /\ op'.name = "ScaledValueString" =>
            numeric_parts(returned'[1]) = numeric_parts(op'.args[1])
       /\ op'.name = "__add__" =>
            /\ op'.args[1] = returned[1]
            /\ numeric_parts(returned'[1])
                = numeric_parts(op'.args[1]) \o numeric_parts(op'.args[2])
       /\ op'.name = "scale" =>
            /\ op'.args[1] = returned[1]
            /\ numeric_parts(returned'[1])
                = [i \in 1..Len(numeric_parts(op'.args[1])) |->
                    Num(NumMul(numeric_parts(op'.args[1])[i].v, op'.args[2]))]
       /\ op'.name \in {"lower", "upper", "lstrip", "rstrip", "strip"} =>
            /\ op'.args[1] = returned[1]
            /\ numeric_parts(returned'[1]) = numeric_parts(op'.args[1])
      ]_vars

\* Witness of C19: a string with a numeric part between two blank text
\* parts, its number obtained by scale, has been stripped: both text parts
\* became empty and only the numeric part is left.
C19_Witness ==
    /\ op.name = "strip"
    /\ op.args[1] = <<Txt(<<" ">>), Num(Whole(1)), Txt(<<" ">>)>>
    /\ returned[1] = <<Num(Whole(1))>>

\* The parts of result are those of original but for its first and last
\* part: an interior part and a numeric part stand unchanged, a text part
\* at an end may have changed, or be gone (first_gone tells whether the
\* first part is).
EndsOnlyChanged(original, result, first_gone) ==
    LET n == Len(original)
        d == IF first_gone THEN 1 ELSE 0
    IN  /\ first_gone => (n > 0 /\ IsStr(original[1]))
        /\ Len(result) \in {n - d, n - d - 1}
        /\ Len(result) >= 0
        /\ Len(result) = n - d - 1 =>
                (n - d > 0 /\ IsStr(original[n]))
        /\ \A i \in 1..n :
            (i - d \in 1..Len(result)) =>
                IF (1 < i /\ i < n) \/ ~IsStr(original[i])
                THEN result[i - d] = original[i]
                ELSE IsStr(result[i - d])
        /\ \A i \in 1..n :
            ~IsStr(original[i]) => i - d \in 1..Len(result)

\* C28 as stated: lower, upper, lstrip, rstrip and strip change only the
\* first and/or last part, and only when it is text; every interior part
\* and every numeric part of the result is the corresponding part of the
\* original.
C28_CaseAndTrimChangeOnlyTheEnds ==
    [][op'.name \in {"lower", "upper", "lstrip", "rstrip", "strip"} =>
            \E first_gone \in BOOLEAN :
                EndsOnlyChanged(op'.args[1], returned'[1], first_gone)
      ]_vars

\* C28, amended: lstrip, rstrip and strip change only the first and/or last
\* part, and only when it is text (a part of which nothing is left is gone);
\* lower and upper change every text part, the interior ones too, to its
\* lower or upper case; no operation changes a numeric part.
C28_TrimChangesTheEndsCaseEveryText ==
    [][/\ op'.name \in {"lstrip", "rstrip", "strip"} =>
            \E first_gone \in BOOLEAN :
                /\ EndsOnlyChanged(op'.args[1], returned'[1], first_gone)
                /\ (op'.name = "rstrip" => ~first_gone)
                /\ (op'.name = "lstrip" =>
                        Len(returned'[1]) = Len(op'.args[1])
                                            - (IF first_gone THEN 1 ELSE 0))
       /\ op'.name \in {"lower", "upper"} =>
            /\ Len(returned'[1]) = Len(op'.args[1])
            /\ \A i \in 1..Len(op'.args[1]) :
                IF IsStr(op'.args[1][i])
                THEN returned'[1][i] =
                        Txt(IF op'.name = "lower"
                            THEN str_lower(op'.args[1][i].s)
                            ELSE str_upper(op'.args[1][i].s))
                ELSE returned'[1][i] = op'.args[1][i]
      ]_vars

\* Witness of C28: lower() of a text part between two numbers returned the
\* text in lower case, an interior part that differs from the original's.
C28_Witness ==
    /\ op.name = "lower"
    /\ op.args[1] = <<Num(Whole(2)), Txt(<<" ", "X", " ">>), Num(Whole(0))>>
    /\ returned[1] = <<Num(Whole(2)), Txt(<<" ", "x", " ">>), Num(Whole(0))>>

\* ------------------------------------------------------------------------
\* compile() on given sources.  A source text is represented by what the
\* parser makes of it: the statements it parses to, or a syntax error.  The
\* statements of these sources, in the recipe syntax:
\*   1kg a     1/2 * a     b = f(a)     b = 1/2 * c     c, c = b
\* ------------------------------------------------------------------------

Source(stmts) == [parses |-> TRUE, stmts |-> stmts]

Unparsable == [parses |-> FALSE, stmts |-> <<>>]

SourceStmts ==
    {ast_Stmt(ref(name_a, <<one_kg>>), <<>>, FALSE),
     ast_Stmt(ref(name_a, <<half>>), <<>>, FALSE),
     ast_Stmt(ast_Step(name_f, <<ref(name_a, <<>>)>>), <<name_b>>, FALSE),
     ast_Stmt(ref(name_c, <<half>>), <<name_b>>, FALSE),
     ast_Stmt(ref(name_b, <<>>), <<name_c, name_c>>, FALSE)}

\* The source texts of n statements, and the text that does not parse.
BlocksOf(n) ==
    {Source(stmts) : stmts \in [1..n -> SourceStmts]}
    \cup (IF n = 1 THEN {Unparsable} ELSE {})

\* The lists of at most b source texts of at most n statements in all.
RECURSIVE SourcesOf(_, _)
SourcesOf(b, n) ==
    IF b = 0 \/ n = 0 THEN {<<>>}
    ELSE {<<>>}
         \cup UNION {{<<source>> \o rest :
                        source \in BlocksOf(k), rest \in SourcesOf(b - 1, n - k)} :
                     k \in 1..n}

\* parse(source): the ast.Recipe's statements, or the ParseError raised.
parse(source) ==
    [raised |-> IF source.parses THEN <<>> ELSE <<"ParseError">>,
     stmts |-> source.stmts]

\* "[parse(source) for source in self._sources]" evaluating its first
\* element only.
first_unparsable_of_first(sources) ==
    IF sources # <<>> /\ parse(sources[1]).raised # <<>> THEN 1 ELSE 0

\* "[parse(source) for source in self._sources]": the position of the first
\* source whose parse raises (0: every source parses).
first_unparsable(sources) ==
    LET bad == {i \in 1..Len(sources) : parse(sources[i]).raised # <<>>}
    IN  IF bad = {} THEN 0 ELSE CHOOSE i \in bad : \A j \in bad : i <= j

GivenInit ==
    /\ pc = "parse"
    /\ ast_recipes = <<>>
    /\ recipe_block_recipe_trees = <<>>
    /\ named_outputs = <<>>
    /\ inline_index = 0
    /\ out = <<>>
    /\ error = <<>>
    /\ definition_site = <<>>
    /\ inlined = {}
    /\ nodes = {}
    /\ trees_so_far = <<>>
    /\ last_recipe = <<>>
    /\ \E sources \in SourcesOf(MaxBlocks, MaxStmts) :
        op = Called("compile", <<sources>>)
    /\ returned = <<>>
    /\ given_cells = <<>>

GivenSources == op.args[1]

\* "ast_recipes = [parse(source) for source in self._sources]".
ParseSources ==
    /\ pc = "parse"
    /\ \E bad \in {first_unparsable(GivenSources)} :
        IF bad # 0
        THEN /\ pc' = "error"
             /\ error' = <<[error |-> "ParseError", node |-> <<>>,
                            path |-> <<>>, block |-> bad - 1, stmt |-> 0]>>
        ELSE /\ pc' = "compile"
             /\ UNCHANGED error
    /\ UNCHANGED <<ast_recipes, recipe_block_recipe_trees, named_outputs,
                   inline_index, out, definition_site, inlined>>
    /\ UNCHANGED model_vars

\* The statements of the block being compiled are exhausted (or there is no
\* such block yet).
BlockExhausted ==
    IF ast_recipes = <<>> THEN TRUE
    ELSE Len(Last(ast_recipes)) = Len(parse(GivenSources[Len(ast_recipes)]).stmts)

\* "for recipe_index, ast_recipe in enumerate(ast_recipes)": the next block.
GivenNextBlock ==
    /\ pc = "compile"
    /\ BlockExhausted
    /\ Len(ast_recipes) < Len(GivenSources)
    /\ NextBlock

\* "for ast_stmt in ast_recipe.stmts": the next statement of the block.
GivenCompileStmt ==
    /\ pc = "compile"
    /\ ~BlockExhausted
    /\ CompileStmtFrom({parse(GivenSources[Len(ast_recipes)]).stmts[
                            Len(Last(ast_recipes)) + 1]})

GivenEndOfSources ==
    /\ pc = "compile"
    /\ BlockExhausted
    /\ Len(ast_recipes) = Len(GivenSources)
    /\ EndOfSources

GivenNext ==
    \/ ParseSources
    \/ GivenNextBlock
    \/ GivenCompileStmt
    \/ GivenEndOfSources
    \/ InlineStep
    \/ CreateRecipes

SpecSources == GivenInit /\ [][GivenNext]_vars

\* The statements of sources with their places, in block and then statement
\* order.
StmtsInOrder(sources) ==
    Flatten([b \in 1..Len(sources) |->
                [t \in 1..Len(sources[b].stmts) |->
                    [block |-> b - 1, stmt |-> t - 1,
                     ast_stmt |-> sources[b].stmts[t]]]])

\* A name as written, stripped and lower-cased.
NormalName(ast_string) == svs_lower(svs_strip(compile_string(ast_string)))

\* The semantic error of a statement written where the names in known are
\* defined: a proportion of a name that is not defined, or else an output
\* name that is defined already or written twice.
stmt_error(ast_stmt, known) ==
    LET leaves == ast_leaves(ast_stmt.expr, <<>>)
    IN  IF \E l \in 1..Len(leaves) :
            /\ NormalName(leaves[l].leaf.name) \notin known
            /\ IsProportion(leaves[l].leaf.quantity_or_proportion)
        THEN <<"ProportionGivenForIngredientError">>
        ELSE IF \E k \in 1..Len(ast_stmt.outputs) :
                \/ NormalName(ast_stmt.outputs[k]) \in known
                \/ \E j \in 1..(k - 1) :
                    NormalName(ast_stmt.outputs[j]) = NormalName(ast_stmt.outputs[k])
        THEN <<"NameRedefinedError">>
        ELSE <<>>

\* The name a statement without output names defines: that of its single
\* ingredient.
RECURSIVE inferred_names(_, _)
inferred_names(ast_expr, known) ==
    IF ast_expr.type = "Reference"
    THEN {NormalName(ast_expr.name)} \ known
    ELSE IF Len(ast_expr.inputs) = 1
    THEN inferred_names(ast_expr.inputs[1], known)
    ELSE {}

stmt_names(ast_stmt, known) ==
    IF ast_stmt.outputs # <<>>
    THEN {NormalName(ast_stmt.outputs[k]) : k \in 1..Len(ast_stmt.outputs)}
    ELSE inferred_names(ast_stmt.expr, known)

\* The first statement with a semantic error, if any, and its error.
RECURSIVE first_error(_, _)
first_error(stmts, known) ==
    IF stmts = <<>> THEN <<>>
    ELSE LET e == stmt_error(Head(stmts).ast_stmt, known)
         IN  IF e # <<>>
             THEN <<[error |-> e[1], block |-> Head(stmts).block,
                     stmt |-> Head(stmts).stmt]>>
             ELSE first_error(Tail(stmts),
                              known \cup stmt_names(Head(stmts).ast_stmt, known))

\* C21: compile() parses every source before it compiles any statement: when
\* some source, even the last, has a syntax error, the parser's error is
\* raised and nothing has been compiled, even when an earlier source has a
\* name error.  When every source parses, the error raised is the first
\* semantic error in block order and then statement order, an error in the
\* expression of a statement coming before a redefinition by its output
\* names; without such an error compile() raises nothing.  Whenever an error
\* is raised no Recipe is returned.
C21_ParseErrorsFirstThenFirstSemanticError ==
    \A sources \in {GivenSources} :
        /\ (\E i \in 1..Len(sources) : ~sources[i].parses) =>
            /\ pc \in {"parse", "error"}
            /\ ast_recipes = <<>>
            /\ named_outputs = <<>>
            /\ pc = "error" => error[1].error = "ParseError"
        /\ ((\A i \in 1..Len(sources) : sources[i].parses) /\ pc # "parse") =>
            \A first \in {first_error(StmtsInOrder(sources), {})} :
                IF first = <<>>
                THEN pc # "error"
                ELSE /\ pc \in {"compile", "error"}
                     /\ pc = "error" =>
                        /\ error[1].error = first[1].error
                        /\ error[1].block = first[1].block
                        /\ error[1].stmt = first[1].stmt
        /\ pc # "done" => out = <<>>

\* Witness of C21: the first source has a name error ('1/2 * a'), the second
\* source has a syntax error, and the parser's error was raised.
C21_Witness ==
    /\ pc = "error"
    /\ error[1].error = "ParseError"
    /\ error[1].block = 1
    /\ Len(GivenSources) = 2
    /\ stmt_error(GivenSources[1].stmts[1], {}) # <<>>
    /\ out = <<>>

\* A statement whose expression has an error and whose output name is defined
\* already raised the error of the expression ('b = f(a)', 'b = 1/2 * c').
C21_ExpressionErrorFirst ==
    /\ pc = "error"
    /\ error[1].error = "ProportionGivenForIngredientError"
    /\ \E b \in 1..Len(GivenSources) :
        \E t \in 1..Len(GivenSources[b].stmts) :
            /\ error[1].block = b - 1
            /\ error[1].stmt = t - 1
            /\ GivenSources[b].stmts[t].outputs # <<>>
            /\ NormalName(GivenSources[b].stmts[t].outputs[1])
                \in {normalise_output_name(named_outputs[i].name) :
                        i \in 1..Len(named_outputs)}

\* ------------------------------------------------------------------------
\* Direct use of the table model: a caller fills a dict keyed by
\* (row, column) with Cells and hands it to Table.from_dict.
\* ------------------------------------------------------------------------

\* The keys and the Cells a caller puts into the dict.
DictKeys == (0..1) \X (0..1)

DictCells ==
    {plain_cell(cell_value, 1, 1),
     plain_cell(cell_value, 1, 2),
     plain_cell(cell_value, 2, 1),
     plain_cell(cell_value, 0, 1)}

DictInit == CompilerUnused /\ ModelUnused

\* The dict the caller is filling, in insertion order.
GivenDict == IF op.name = "none" THEN <<>> ELSE op.args[1]

\* table_dict[key] = cell
SetItem ==
    /\ op.name \in {"none", "setitem"}
    /\ \E key \in DictKeys : \E cell \in DictCells :
        /\ Len(dict_set(GivenDict, key, cell)) <= MaxCells
        /\ op' = Called("setitem", <<dict_set(GivenDict, key, cell)>>)
    /\ returned' = <<>>
    /\ UNCHANGED <<compile_vars, nodes, trees_so_far, last_recipe, given_cells>>

\* Table.from_dict(table_dict)
FromDict ==
    /\ op.name \in {"none", "setitem"}
    /\ op' = Called("from_dict", <<GivenDict>>)
    /\ returned' = <<from_dict(GivenDict)>>
    /\ UNCHANGED <<compile_vars, nodes, trees_so_far, last_recipe, given_cells>>

\* .to_dict() on the Table from_dict returned.
ToDict ==
    /\ op.name = "from_dict"
    /\ ~IsError(returned[1])
    /\ op' = Called("to_dict", op.args)
    /\ returned' = <<to_dict(returned[1])>>
    /\ UNCHANGED <<compile_vars, nodes, trees_so_far, last_recipe, given_cells>>

DictNext == SetItem \/ FromDict \/ ToDict

SpecDict == DictInit /\ [][DictNext]_vars

\* C23: for every mapping d for which Table.from_dict(d) returns a Table,
\* Table.from_dict(d).to_dict() == d (dicts compare by their items, whatever
\* the order): no cell is dropped, moved or altered.
C23_FromDictToDictIsIdentity ==
    op.name = "to_dict" => Range(returned[1]) = Range(op.args[1])

\* ------------------------------------------------------------------------
\* Units the unit system does not know, in inlining and in the lint.  The
\* statements of these sources, in the recipe syntax:
\*   1 foo a      1 FOO a      2 foo a      1 bar a
\*   1kg a        1l a         1 a          1 foo b      b = f(1 foo a)
\* The first statement for a name defines an ingredient, the later ones
\* refer to it.
\* ------------------------------------------------------------------------

unit_FOO == <<"F", "O", "O">>

unit_bar == <<"b", "a", "r">>

one_of(unit) == ast_Quantity(Whole(1), <<ast_String(<<ast_Substring(unit)>>)>>, " ", "")

two_foo == ast_Quantity(Whole(2), <<ast_String(<<ast_Substring(unit_foo)>>)>>, " ", "")

UnitStmts ==
    {ast_Stmt(ref(name_a, amount), <<>>, FALSE) :
        amount \in {<<one_of(unit_foo)>>, <<one_of(unit_FOO)>>, <<two_foo>>,
                    <<one_of(unit_bar)>>, <<one_of(unit_kg)>>,
                    <<one_of(unit_l)>>, <<one_unitless>>}}
    \cup {ast_Stmt(ref(name_b, <<one_of(unit_foo)>>), <<>>, FALSE),
          ast_Stmt(ast_Step(name_f, <<ref(name_a, <<one_of(unit_foo)>>)>>),
                   <<name_b>>, FALSE)}

CompileUnitStmt == CompileStmtFrom(UnitStmts)

UnitsNext ==
    \/ NextBlock
    \/ CompileUnitStmt
    \/ EndOfSources
    \/ InlineStep
    \/ CreateRecipes
    \/ LintCheck

SpecUnits == Init /\ [][UnitsNext]_vars

\* The unit of a Quantity is given and the unit system has no such name.
Unregistered(quantity) ==
    /\ quantity.unit # <<>>
    /\ str_lower(quantity.unit[1]) \notin {unit_g, unit_kg, unit_l}

\* No factor converts between the units of two quantities: one of them has
\* no unit while the other has, or a unit is not registered, or the units
\* measure different things.
Inconvertible(q1, q2) ==
    \/ (q1.unit = <<>>) # (q2.unit = <<>>)
    \/ Unregistered(q1)
    \/ Unregistered(q2)
    \/ /\ q1.unit # <<>>
       /\ q2.unit # <<>>
       /\ (str_lower(q1.unit[1]) = unit_l) # (str_lower(q2.unit[1]) = unit_l)

\* Two quantities are in the same unregistered unit, up to case, and have
\* the same value.
EqualInUnknownUnit(q1, q2) ==
    /\ Unregistered(q1)
    /\ Unregistered(q2)
    /\ str_lower(q1.unit[1]) = str_lower(q2.unit[1])
    /\ q1.value = q2.value

\* The i-th output has one output name and one reference, in the block of
\* its definition, for a quantity, and its total quantity is known.
UsedOnceForQuantity(i) ==
    /\ NumOutputs(i) = 1
    /\ Cardinality(SourceRefs(i)) = 1
    /\ SoleRef(i).block = definition_site[i].block
    /\ SoleRef(i).leaf.quantity_or_proportion # <<>>
    /\ SoleRef(i).leaf.quantity_or_proportion[1].type = "Quantity"
    /\ TotalQuantity(i) # <<>>

SoleQuantity(i) == compile_quantity(SoleRef(i).leaf.quantity_or_proportion[1])

\* The lints of a kind that name a unit, among lints.
LintsOfUnit(lints, lint_kind, unit) ==
    {k \in 1..Len(lints) :
        /\ lints[k].kind = lint_kind
        /\ lints[k].description.unit = unit}

\* The References the lint comes to from a root tree: those of its steps,
\* outside the definitions of sub recipes.
RECURSIVE references_of_steps(_)
references_of_steps(node) ==
    CASE node.kind = "Reference" -> <<node>>
      [] node.kind = "Step" ->
            Flatten([k \in 1..Len(node.inputs) |->
                        references_of_steps(node.inputs[k])])
      [] OTHER -> <<>>

ReferencesOfSteps(recipes) ==
    Flatten([i \in 1..Len(recipe_block_trees(recipes)) |->
                references_of_steps(recipe_block_trees(recipes)[i])])

====
